---------------------------- MODULE Spec2Model ----------------------------
(***************************************************************************)
(* Dictionary engines of Dicion-rio-EDA: the open-addressing hash table    *)
(* (double hashing, tombstones), the AVL tree and the red-black tree.      *)
(* Each engine has its own variables and its own specification; the        *)
(* variables of the other engines stay at their initial values.            *)
(***************************************************************************)
EXTENDS Integers, Naturals, Sequences, FiniteSets, TLC

VARIABLES
    structure_type,        \* the dictionary a run works on through IDictionary
                           \* ("avl", "rb", "open_hash"); "none" in the
                           \* specifications of one engine
    metering,              \* TRUE in the specifications that follow the metric
                           \* counters; elsewhere the counters are left at 0
    fed,                   \* processFile: the number of lines read so far
    freq,                  \* history: cleaned word -> its occurrences among them
    pc,                    \* main: where the program is ("none" outside a run of main)
    argc,                  \* main: argc
    argv1,                 \* main: argv[1]
    argv3,                 \* main: argv[3] (read when argc = 5)
    todo,                  \* main: the structures the --all loop has yet to run
    input_open,            \* processFile: file.is_open() of the input file
    output_open,           \* OutputWriter: m_output_file.is_open()
    cerr,                  \* the error messages written to std::cerr
    report,                \* TRUE once write_report has written the report
    exit_status,           \* the value main returned, once pc = "exit"
    m_table,               \* OpenAddressingHashTable::m_table (slot index -> HashSlot)
    m_table_size,          \* OpenAddressingHashTable::m_table_size
    m_number_of_elements,  \* OpenAddressingHashTable::m_number_of_elements
    oaComparisons,         \* OpenAddressingHashTable::comparisons
    oaCollisions,          \* OpenAddressingHashTable::collisions
    oaExpect,              \* history: key -> value of its last add, NoVal once removed
    oaLast,                \* history: the last hash-table call (operation, key,
                           \* for a remove whether the key was stored at the call)
    avlRoot,               \* AVL::root, the tree as a value (a node holds its subtrees)
    avlNodeCount,          \* AVL::nodeCount
    avlComparisons,        \* AVL::comparisons
    avlRotations,          \* AVL::rotations
    avlExpect,             \* history: key -> value of its last add, NoVal once removed
    avlLast,               \* history: the last AVL call (operation, key, rotations
                           \* it made, key at the root when it was called)
    rbHeap,                \* the RBNode objects: TNULL and one node per key
    rbRoot,                \* RB::root
    rbNodeCount,           \* RB::nodeCount
    rbComparisons,         \* RB::comparisons
    rbRotations,           \* RB::rotations
    rbColors,              \* RB::colors
    rbFault,               \* "none" while the process runs; how a call stopped it
    rbExpect,              \* history: key -> value of its last add, NoVal once removed
    rbLast                 \* history: the last RB call (operation, key, the
                           \* arguments deleteFix was entered with)

mainVars == <<pc, argc, argv1, argv3, todo, input_open, output_open, cerr,
              report, exit_status>>

runVars == <<structure_type, metering, fed, freq, mainVars>>

oaVars == <<m_table, m_table_size, m_number_of_elements, oaComparisons,
            oaCollisions, oaExpect, oaLast>>

avlVars == <<avlRoot, avlNodeCount, avlComparisons, avlRotations, avlExpect, avlLast>>

rbVars == <<rbHeap, rbRoot, rbNodeCount, rbComparisons, rbRotations, rbColors,
            rbFault, rbExpect, rbLast>>

vars == <<structure_type, metering, fed, freq,
          pc, argc, argv1, argv3, todo, input_open, output_open, cerr, report,
          exit_status,
          m_table, m_table_size, m_number_of_elements, oaComparisons,
          oaCollisions, oaExpect, oaLast,
          avlRoot, avlNodeCount, avlComparisons, avlRotations, avlExpect, avlLast,
          rbHeap, rbRoot, rbNodeCount, rbComparisons, rbRotations, rbColors,
          rbFault, rbExpect, rbLast>>

-----------------------------------------------------------------------------
(* Bounds of the model *)

\* values stored are 1..MaxVal
MaxVal == 2

\* keys of the hash table; std::hash<int> is the identity, so the keys are
\* chosen for their residues modulo the capacities and modulo HASH_PRIME
OaKeys == {3, 8, 13, 18}

\* the nine distinct keys inserted by the capacity-11 scenario
ScnKeys == {1, 2, 3, 4, 5, 6, 7, 8, 13}

OaAllKeys == OaKeys \cup ScnKeys

\* initial capacities (10 is the capacity the repository's tests use)
OaInitCaps == {5, 10}

\* keys of the trees are 1..MaxKey, ordered as integers
MaxKey == 5

TreeKeys == 1..MaxKey

Values == 1..MaxVal

\* keys of a run on one dictionary chosen by structure_type: DictOaKeys for
\* the hash table (at capacity 5 they fill three slots, and the next add
\* rehashes), DictTreeKeys for the trees
DictOaKeys == {1, 2, 6}

DictTreeKeys == {1, 2, 3}

\* the value such a run stores: no counter depends on the values
DictValues == {1}

\* "no value": the key is absent / get() threw
NoVal == 0

\* the metric counters are followed up to MaxComparisons comparisons
MaxComparisons == 9

\* the specification follows the metric counters
Metered == metering

\* the value a call leaves in a counter variable
Counted(counter, value) == IF Metered THEN value ELSE counter

-----------------------------------------------------------------------------
(* Open-addressing hash table *)

EMPTY == "EMPTY"
OCCUPIED == "OCCUPIED"
DELETED == "DELETED"

\* HashSlot(): value-initialised pair<int,int> and status EMPTY
HashSlot == [status |-> EMPTY, key |-> 0, val |-> 0]

\* a slot whose status was set to s without touching its pair: no member
\* function reads the pair of a slot that is not OCCUPIED (find_slot, get,
\* rehash and get_all_keys_sorted all test the status first), so the pair left
\* behind is not kept
Vacated(s) == [status |-> s, key |-> 0, val |-> 0]

HASH_PRIME == 13

\* max_load_factor = 0.75f, as the exact fraction MaxLoadNum / MaxLoadDen
MaxLoadNum == 3
MaxLoadDen == 4

\* Hash m_hashing: std::hash<int> returns its argument
m_hashing(k) == k

hash_code(k, size) == m_hashing(k) % size

hash_code2(k) == HASH_PRIME - (m_hashing(k) % HASH_PRIME)

\* the for loop of find_slot that also returns at a DELETED slot
RECURSIVE find_slot_loop_StopsAtTombstone(_, _, _, _, _, _, _)
find_slot_loop_StopsAtTombstone(table, size, k, initial_index, step, index, i) ==
    IF i >= size
    THEN [index |-> index, probes |-> i]
    ELSE IF table[index].status # OCCUPIED
         THEN [index |-> index, probes |-> i + 1]
    ELSE IF table[index].key = k
         THEN [index |-> index, probes |-> i + 1]
    ELSE find_slot_loop_StopsAtTombstone(table, size, k, initial_index, step,
                                         (initial_index + (i + 1) * step) % size,
                                         i + 1)
\* the for loop of find_slot with the test i <= m_table_size
RECURSIVE find_slot_loop_OneMore(_, _, _, _, _, _, _)
find_slot_loop_OneMore(table, size, k, initial_index, step, index, i) ==
    IF i > size
    THEN [index |-> index, probes |-> i]
    ELSE IF table[index].status = EMPTY
         THEN [index |-> index, probes |-> i + 1]
    ELSE IF table[index].status = OCCUPIED /\ table[index].key = k
         THEN [index |-> index, probes |-> i + 1]
    ELSE find_slot_loop_OneMore(table, size, k, initial_index, step,
                                (initial_index + (i + 1) * step) % size, i + 1)
\* the for loop of find_slot; the result is the returned index and the number
\* of executions of comparisons++
RECURSIVE find_slot_loop(_, _, _, _, _, _, _)
find_slot_loop(table, size, k, initial_index, step, index, i) ==
    IF i >= size
    THEN [index |-> index, probes |-> i]
    ELSE IF table[index].status = EMPTY
         THEN [index |-> index, probes |-> i + 1]
    ELSE IF table[index].status = OCCUPIED /\ table[index].key = k
         THEN [index |-> index, probes |-> i + 1]
    ELSE find_slot_loop(table, size, k, initial_index, step,
                        (initial_index + (i + 1) * step) % size, i + 1)

find_slot(t, k) ==
    find_slot_loop(t.table, t.size, k, hash_code(k, t.size), hash_code2(k),
                   hash_code(k, t.size), 0)

\* the load-factor test of add with > in the place of >=
NeedsRehash_Strict(t) == (t.n + 1) * MaxLoadDen > MaxLoadNum * t.size
\* static_cast<float>(m_number_of_elements + 1) / m_table_size >= m_max_load_factor
NeedsRehash(t) == (t.n + 1) * MaxLoadDen >= MaxLoadNum * t.size

\* a table value: [table, size, n, comparisons, collisions]
RECURSIVE add(_, _, _)
RECURSIVE rehash_loop(_, _, _)

\* the loop of rehash over old_table, from slot i on
rehash_loop(t, old_table, i) ==
    IF i >= Len(old_table)
    THEN t
    ELSE IF old_table[i + 1].status = OCCUPIED
         THEN rehash_loop(add(t, old_table[i + 1].key, old_table[i + 1].val),
                          old_table, i + 1)
         ELSE rehash_loop(t, old_table, i + 1)

\* rehash that resets comparisons as it resets collisions
rehash_ResetsComparisons(t, new_size) ==
    rehash_loop([table |-> [j \in 0..(new_size - 1) |-> HashSlot],
                 size |-> new_size, n |-> 0,
                 comparisons |-> 0, collisions |-> 0],
                [j \in 1..t.size |-> t.table[j - 1]], 0)

rehash(t, new_size) ==
    rehash_loop([table |-> [j \in 0..(new_size - 1) |-> HashSlot],
                 size |-> new_size, n |-> 0,
                 comparisons |-> t.comparisons, collisions |-> 0],
                [j \in 1..t.size |-> t.table[j - 1]], 0)

\* the part of add after the load-factor check, counting the element also
\* when the slot found is OCCUPIED
add_store_CountsOverwrite(t, k, v) ==
    LET initial_index == hash_code(k, t.size)
        f == find_slot(t, k)
        index == f.index
    IN  IF t.table[index].status = OCCUPIED
        THEN [t EXCEPT !.table[index].val = v,
                       !.n = t.n + 1,
                       !.comparisons = @ + f.probes]
        ELSE [t EXCEPT !.table[index] = [status |-> OCCUPIED, key |-> k, val |-> v],
                       !.n = t.n + 1,
                       !.comparisons = @ + f.probes,
                       !.collisions = IF index # initial_index THEN @ + 1 ELSE @]
\* the part of add after the load-factor check
add_store(t, k, v) ==
    LET initial_index == hash_code(k, t.size)
        f == find_slot(t, k)
        index == f.index
    IN  IF t.table[index].status = OCCUPIED
        THEN [t EXCEPT !.table[index].val = v,
                       !.comparisons = @ + f.probes]
        ELSE [t EXCEPT !.table[index] = [status |-> OCCUPIED, key |-> k, val |-> v],
                       !.n = t.n + 1,
                       !.comparisons = @ + f.probes,
                       !.collisions = IF index # initial_index THEN @ + 1 ELSE @]

add(t, k, v) ==
    add_store(IF NeedsRehash(t) THEN rehash(t, 2 * t.size) ELSE t, k, v)

\* remove that marks the slot EMPTY instead of DELETED
remove_MarksEmpty(t, k) ==
    LET f == find_slot(t, k)
        index == f.index
    IN  IF t.table[index].status = OCCUPIED
        THEN [t EXCEPT !.table[index] = Vacated(EMPTY), !.n = t.n - 1,
                       !.comparisons = @ + f.probes]
        ELSE [t EXCEPT !.comparisons = @ + f.probes]

remove(t, k) ==
    LET f == find_slot(t, k)
        index == f.index
    IN  IF t.table[index].status = OCCUPIED
        THEN [t EXCEPT !.table[index] = Vacated(DELETED), !.n = t.n - 1,
                       !.comparisons = @ + f.probes]
        ELSE [t EXCEPT !.comparisons = @ + f.probes]

\* get: the value, or NoVal where the code throws std::out_of_range
get(t, k) ==
    LET index == find_slot(t, k).index
    IN  IF t.table[index].status # OCCUPIED \/ t.table[index].key # k
        THEN NoVal
        ELSE t.table[index].val

contains(t, k) ==
    LET index == find_slot(t, k).index
    IN  t.table[index].status = OCCUPIED /\ t.table[index].key = k

clear(t) ==
    [t EXCEPT !.table = [j \in 0..(t.size - 1) |-> Vacated(EMPTY)],
              !.n = 0, !.comparisons = 0, !.collisions = 0]

\* isEmpty()
isEmpty(t) == t.n = 0

\* the keys of a set in ascending order
RECURSIVE Ascending(_)
Ascending(S) ==
    IF S = {} THEN <<>>
    ELSE LET least == CHOOSE x \in S : \A y \in S : x <= y
         IN  <<least>> \o Ascending(S \ {least})

\* get_all_keys_sorted(): the keys of the OCCUPIED slots, sorted
get_all_keys_sorted(t) ==
    IF isEmpty(t) THEN <<>>
    ELSE Ascending({t.table[j].key :
                       j \in {i \in 0..(t.size - 1) : t.table[i].status = OCCUPIED}})

\* the counter after get(k): find_slot counts its probes
get_comparisons_after_get(t, k) == t.comparisons + find_slot(t, k).probes

\* the counter after contains(k): find_slot's probes and one more
get_comparisons_after_contains(t, k) == t.comparisons + find_slot(t, k).probes + 1

size(t) == t.n

\* k is the key of an OCCUPIED slot of table value t
OaStoredKey(t, k) == \E j \in 0..(t.size - 1) :
                        t.table[j].status = OCCUPIED /\ t.table[j].key = k

\* the table object as one value
OaTable ==
    [table |-> m_table, size |-> m_table_size, n |-> m_number_of_elements,
     comparisons |-> oaComparisons, collisions |-> oaCollisions]

OaStore(t) ==
    /\ Metered => t.comparisons <= MaxComparisons
    /\ m_table' = t.table
    /\ m_table_size' = t.size
    /\ m_number_of_elements' = t.n
    /\ oaComparisons' = Counted(oaComparisons, t.comparisons)
    /\ oaCollisions' = Counted(oaCollisions, t.collisions)

\* OpenAddressingHashTable(tableSize, 0.75f)
OaNew(tableSize) ==
    /\ m_table_size = tableSize
    /\ m_table = [j \in 0..(m_table_size - 1) |-> HashSlot]
    /\ m_number_of_elements = 0
    /\ oaComparisons = 0
    /\ oaCollisions = 0
    /\ oaExpect = [k \in OaAllKeys |-> NoVal]
    /\ oaLast = [op |-> "new", key |-> 0, present |-> FALSE]

OaInit == \E tableSize \in OaInitCaps : OaNew(tableSize)

OaAdd(k, v) ==
    /\ UNCHANGED <<runVars, avlVars, rbVars>>
    /\ OaStore(add(OaTable, k, v))
    /\ oaExpect' = [oaExpect EXCEPT ![k] = v]
    /\ oaLast' = [op |-> "add", key |-> k, present |-> FALSE]

OaRemove(k) ==
    /\ UNCHANGED <<runVars, avlVars, rbVars>>
    /\ OaStore(remove(OaTable, k))
    /\ oaExpect' = [oaExpect EXCEPT ![k] = NoVal]
    /\ oaLast' = [op |-> "remove", key |-> k, present |-> OaStoredKey(OaTable, k)]

OaClear ==
    /\ UNCHANGED <<runVars, avlVars, rbVars>>
    /\ OaStore(clear(OaTable))
    /\ oaExpect' = [k \in OaAllKeys |-> NoVal]
    /\ oaLast' = [op |-> "clear", key |-> 0, present |-> FALSE]

\* get(k): a const member, only the mutable counter changes
OaGetCall(k) ==
    /\ UNCHANGED <<runVars, avlVars, rbVars>>
    /\ OaStore([OaTable EXCEPT !.comparisons = get_comparisons_after_get(OaTable, k)])
    /\ UNCHANGED oaExpect
    /\ oaLast' = [op |-> "get", key |-> k, present |-> FALSE]

\* contains(k): a const member, only the mutable counter changes
OaContainsCall(k) ==
    /\ UNCHANGED <<runVars, avlVars, rbVars>>
    /\ OaStore([OaTable EXCEPT !.comparisons =
                                   get_comparisons_after_contains(OaTable, k)])
    /\ UNCHANGED oaExpect
    /\ oaLast' = [op |-> "contains", key |-> k, present |-> FALSE]

OaAddStep == \E k \in OaKeys, v \in Values : OaAdd(k, v)
OaRemoveStep == \E k \in OaKeys : OaRemove(k)

-----------------------------------------------------------------------------
(* AVL tree *)

\* a null Nodeptr
nullptr == [isNull |-> TRUE]

\* Node(data, height, left, right)
Node(key, val, h, l, r) ==
    [isNull |-> FALSE, key |-> key, val |-> val, height |-> h, left |-> l, right |-> r]

Max(a, b) == IF a > b THEN a ELSE b

height(node) == IF node.isNull THEN 0 ELSE node.height

getBalance(node) ==
    IF node.isNull THEN 0 ELSE height(node.right) - height(node.left)

\* node->height = 1 + std::max(height(node->left), height(node->right))
SetHeight(node) ==
    [node EXCEPT !.height = 1 + Max(height(node.left), height(node.right))]

\* The private members below take and return, next to the subtree, the
\* counters m = [nodeCount, rotations, comparisons] they update on the way.

\* leftRotate without its two height assignments (lines 215-216)
leftRotate_StaleHeights(node, m) ==
    LET u == node.right
        n1 == [node EXCEPT !.right = u.left]
        u1 == [u EXCEPT !.left = n1]
    IN  [node |-> u1, m |-> [m EXCEPT !.rotations = @ + 1]]
leftRotate(node, m) ==
    LET u == node.right
        n1 == SetHeight([node EXCEPT !.right = u.left])
        u1 == SetHeight([u EXCEPT !.left = n1])
    IN  [node |-> u1, m |-> [m EXCEPT !.rotations = @ + 1]]

\* rightRotate that leaves out node->left = u->right (line 237)
rightRotate_DropsInner(node, m) ==
    LET u == node.left
        n1 == SetHeight([node EXCEPT !.left = nullptr])
        u1 == SetHeight([u EXCEPT !.right = n1])
    IN  [node |-> u1, m |-> [m EXCEPT !.rotations = @ + 1]]
rightRotate(node, m) ==
    LET u == node.left
        n1 == SetHeight([node EXCEPT !.left = u.right])
        u1 == SetHeight([u EXCEPT !.right = n1])
    IN  [node |-> u1, m |-> [m EXCEPT !.rotations = @ + 1]]

\* minValueNode that does not walk down the left spine
minValueNode_NoDescent(node) == node

RECURSIVE minValueNode(_)
minValueNode(node) ==
    IF ~node.isNull /\ ~node.left.isNull THEN minValueNode(node.left) ELSE node

\* _insert from the height update to its return
InsertRebalance(node0, m) ==
    LET node == SetHeight(node0)
        bal == getBalance(node)
    IN  IF bal < -1 /\ getBalance(node.left) <= 0
        THEN rightRotate(node, m)
        ELSE IF bal < -1 /\ getBalance(node.left) > 0
        THEN LET l == leftRotate(node.left, m)
             IN  rightRotate([node EXCEPT !.left = l.node], l.m)
        ELSE IF bal > 1 /\ getBalance(node.right) >= 0
        THEN leftRotate(node, m)
        ELSE IF bal > 1 /\ getBalance(node.right) < 0
        THEN LET r == rightRotate(node.right, m)
             IN  leftRotate([node EXCEPT !.right = r.node], r.m)
        ELSE [node |-> node, m |-> m]

RECURSIVE _insert(_, _, _, _)
_insert(node, key, value_to_add, m) ==
    IF node.isNull
    THEN [node |-> Node(key, value_to_add, 1, nullptr, nullptr),
          m |-> [m EXCEPT !.nodeCount = @ + 1]]
    ELSE IF key < node.key
    THEN LET r == _insert(node.left, key, value_to_add,
                          [m EXCEPT !.comparisons = @ + 1])
         IN  InsertRebalance([node EXCEPT !.left = r.node], r.m)
    ELSE IF key > node.key
    THEN LET r == _insert(node.right, key, value_to_add,
                          [m EXCEPT !.comparisons = @ + 2])
         IN  InsertRebalance([node EXCEPT !.right = r.node], r.m)
    ELSE [node |-> [node EXCEPT !.val = value_to_add],
          m |-> [m EXCEPT !.comparisons = @ + 2]]

\* RemoveRebalance without its two double-rotation cases
RemoveRebalance_SingleOnly(node0, m) ==
    LET node == SetHeight(node0)
        bal == getBalance(node)
    IN  IF bal < -1 /\ getBalance(node.left) <= 0
        THEN rightRotate(node, m)
        ELSE IF bal > 1 /\ getBalance(node.right) >= 0
        THEN leftRotate(node, m)
        ELSE [node |-> node, m |-> m]

\* _remove from the height update to its return
RemoveRebalance(node0, m) ==
    LET node == SetHeight(node0)
        bal == getBalance(node)
    IN  IF bal < -1 /\ getBalance(node.left) <= 0
        THEN rightRotate(node, m)
        ELSE IF bal > 1 /\ getBalance(node.right) >= 0
        THEN leftRotate(node, m)
        ELSE IF bal < -1 /\ getBalance(node.left) > 0
        THEN LET l == leftRotate(node.left, m)
             IN  rightRotate([node EXCEPT !.left = l.node], l.m)
        ELSE IF bal > 1 /\ getBalance(node.right) < 0
        THEN LET r == rightRotate(node.right, m)
             IN  leftRotate([node EXCEPT !.right = r.node], r.m)
        ELSE [node |-> node, m |-> m]

RECURSIVE _remove(_, _, _)
_remove(node, key, m) ==
    IF node.isNull
    THEN [node |-> node, m |-> m]
    ELSE IF key < node.key
    THEN LET r == _remove(node.left, key, [m EXCEPT !.comparisons = @ + 1])
         IN  RemoveRebalance([node EXCEPT !.left = r.node], r.m)
    ELSE IF key > node.key
    THEN LET r == _remove(node.right, key, [m EXCEPT !.comparisons = @ + 2])
         IN  RemoveRebalance([node EXCEPT !.right = r.node], r.m)
    ELSE LET m1 == [m EXCEPT !.comparisons = @ + 2]
         IN  IF node.left.isNull \/ node.right.isNull
             THEN [node |-> IF ~node.left.isNull THEN node.left ELSE node.right,
                   m |-> [m1 EXCEPT !.nodeCount = @ - 1]]
             ELSE LET temp == minValueNode(node.right)
                      r == _remove(node.right, temp.key, m1)
                  IN  RemoveRebalance([node EXCEPT !.key = temp.key,
                                                   !.val = temp.val,
                                                   !.right = r.node], r.m)

\* findNode that counts one comparison where the key is greater
RECURSIVE findNode_OneForGreater(_, _, _)
findNode_OneForGreater(node, key, m) ==
    IF node.isNull
    THEN [node |-> node, m |-> m]
    ELSE IF key < node.key
    THEN findNode_OneForGreater(node.left, key, [m EXCEPT !.comparisons = @ + 1])
    ELSE IF key > node.key
    THEN findNode_OneForGreater(node.right, key, [m EXCEPT !.comparisons = @ + 1])
    ELSE [node |-> node, m |-> [m EXCEPT !.comparisons = @ + 2]]

\* findNode: the node found (or nullptr) and the comparisons counted
RECURSIVE findNode(_, _, _)
findNode(node, key, m) ==
    IF node.isNull
    THEN [node |-> node, m |-> m]
    ELSE IF key < node.key
    THEN findNode(node.left, key, [m EXCEPT !.comparisons = @ + 1])
    ELSE IF key > node.key
    THEN findNode(node.right, key, [m EXCEPT !.comparisons = @ + 2])
    ELSE [node |-> node, m |-> [m EXCEPT !.comparisons = @ + 2]]

\* the counters at the start of a call
AvlCounters ==
    [nodeCount |-> avlNodeCount, rotations |-> avlRotations,
     comparisons |-> avlComparisons]

AvlStore(node, m) ==
    /\ Metered => m.comparisons <= MaxComparisons
    /\ avlRoot' = node
    /\ avlNodeCount' = m.nodeCount
    /\ avlComparisons' = Counted(avlComparisons, m.comparisons)
    /\ avlRotations' = Counted(avlRotations, m.rotations)

\* AVL::get: the value, or NoVal where the code throws std::runtime_error
AvlGet(root, key) ==
    LET f == findNode(root, key, AvlCounters)
    IN  IF ~f.node.isNull THEN f.node.val ELSE NoVal

AvlContains(root, key) == ~findNode(root, key, AvlCounters).node.isNull

\* in_Order_vec
RECURSIVE in_Order_vec(_)
in_Order_vec(node) ==
    IF node.isNull THEN <<>>
    ELSE in_Order_vec(node.left) \o <<node.key>> \o in_Order_vec(node.right)

\* isEmpty()
AvlIsEmpty == avlNodeCount = 0

\* get_all_keys_sorted()
AvlKeysSorted == IF AvlIsEmpty THEN <<>> ELSE in_Order_vec(avlRoot)

\* the key at the root, 0 for the empty tree
AvlRootKey == IF avlRoot.isNull THEN 0 ELSE avlRoot.key

\* AVL()
AvlInit ==
    /\ avlRoot = nullptr
    /\ avlNodeCount = 0
    /\ avlComparisons = 0
    /\ avlRotations = 0
    /\ avlExpect = [k \in TreeKeys |-> NoVal]
    /\ avlLast = [op |-> "new", key |-> 0, rotations |-> 0, root |-> 0]

AvlAdd(key, value_to_add) ==
    LET r == _insert(avlRoot, key, value_to_add, AvlCounters)
    IN  /\ UNCHANGED <<runVars, oaVars, rbVars>>
        /\ AvlStore(r.node, r.m)
        /\ avlExpect' = [avlExpect EXCEPT ![key] = value_to_add]
        /\ avlLast' = [op |-> "add", key |-> key,
                       rotations |-> r.m.rotations - avlRotations,
                       root |-> AvlRootKey]

AvlRemove(key) ==
    LET r == _remove(avlRoot, key, AvlCounters)
    IN  /\ UNCHANGED <<runVars, oaVars, rbVars>>
        /\ AvlStore(r.node, r.m)
        /\ avlExpect' = [avlExpect EXCEPT ![key] = NoVal]
        /\ avlLast' = [op |-> "remove", key |-> key,
                       rotations |-> r.m.rotations - avlRotations,
                       root |-> AvlRootKey]

\* clear(): destroy(root), then root and the three counters are reset
AvlClearAll ==
    [node |-> nullptr, m |-> [nodeCount |-> 0, rotations |-> 0, comparisons |-> 0]]

AvlClear ==
    /\ UNCHANGED <<runVars, oaVars, rbVars>>
    /\ AvlStore(AvlClearAll.node, AvlClearAll.m)
    /\ avlExpect' = [k \in TreeKeys |-> NoVal]
    /\ avlLast' = [op |-> "clear", key |-> 0, rotations |-> 0, root |-> AvlRootKey]

\* get(key) and contains(key): const members, findNode counts comparisons
AvlGetCall(key) ==
    /\ UNCHANGED <<runVars, oaVars, rbVars>>
    /\ AvlStore(avlRoot, findNode(avlRoot, key, AvlCounters).m)
    /\ UNCHANGED avlExpect
    /\ avlLast' = [op |-> "get", key |-> key, rotations |-> 0, root |-> AvlRootKey]

AvlContainsCall(key) ==
    /\ UNCHANGED <<runVars, oaVars, rbVars>>
    /\ AvlStore(avlRoot, findNode(avlRoot, key, AvlCounters).m)
    /\ UNCHANGED avlExpect
    /\ avlLast' = [op |-> "contains", key |-> key, rotations |-> 0,
                   root |-> AvlRootKey]

AvlAddStep == \E k \in TreeKeys, v \in Values : AvlAdd(k, v)
AvlRemoveStep == \E k \in TreeKeys : AvlRemove(k)

-----------------------------------------------------------------------------
(* Red-black tree *)

\* Node pointers: TNULL is the sentinel, a key k in RbKeys is the node that
\* holds key k (a node keeps its key for its whole life), NULLPTR is nullptr.
NULLPTR == -1
TNULL == 0
\* a pointer to deleted memory that is not modelled any longer: following it
\* stops the process
GONE == -2

RbMaxKey == 4
RbKeys == 1..RbMaxKey

RED == "RED"
BLACK == "BLACK"

\* Storage of a node: "live" between new and delete; "stale" once deleted,
\* while a pointer to it is left (the links and the colour then hold what
\* the node held when it was deleted, or what was written through such a
\* pointer since); "free" otherwise.
FreeNode == [st |-> "free", color |-> RED, parent |-> NULLPTR,
             left |-> NULLPTR, right |-> NULLPTR, val |-> 0]

\* new RBNode<Key, Value>(std::make_pair(key, value))
RBNode(value) == [st |-> "live", color |-> RED, parent |-> NULLPTR,
                  left |-> NULLPTR, right |-> NULLPTR, val |-> value]

\* delete node: the links and the colour stay in the memory; the pair is
\* destroyed, and what a later read of it gives is not modelled
Deleted(node) == [node EXCEPT !.st = "stale", !.val = 0]

\* initializeTNULL: a black node whose three links are nullptr
initializeTNULL == [st |-> "live", color |-> BLACK, parent |-> NULLPTR,
                    left |-> NULLPTR, right |-> NULLPTR, val |-> 0]

\* A tree object T is [heap, root, nodeCount, rotations, colors, comparisons]
\* plus fault ("none"; "trap" when the call dereferenced a pointer that is
\* null or deleted and the process stopped there; "loop" when it never left
\* a loop), uaf (what an access through a pointer to a deleted node does in
\* this call: "trap", or "stale" when the deleted node still reads and
\* writes as the memory it was) and fix (the arguments deleteFix was
\* entered with).

\* p may be dereferenced without stopping the process
Readable(T, p) ==
    IF p = TNULL THEN TRUE
    ELSE IF p \notin RbKeys THEN FALSE
    ELSE IF T.heap[p].st = "live" THEN TRUE
    ELSE T.heap[p].st = "stale" /\ T.uaf = "stale"

Fault(T) == [T EXCEPT !.fault = "trap"]
Diverge(T) == [T EXCEPT !.fault = "loop"]
Faulted(T) == T.fault # "none"

\* p->color = c (assigned counts the assignments to a color made by the call)
SetColor(T, p, c) == [T EXCEPT !.heap[p].color = c, !.assigned = @ + 1]
SetParent(T, p, q) == [T EXCEPT !.heap[p].parent = q]
SetLeft(T, p, q) == [T EXCEPT !.heap[p].left = q]
SetRight(T, p, q) == [T EXCEPT !.heap[p].right = q]

\* p->color = c; colors++
Recolor(T, p, c) ==
    [T EXCEPT !.heap[p].color = c, !.colors = @ + 1, !.assigned = @ + 1]

\* loops of a well-formed tree of RbMaxKey nodes end within this many rounds;
\* a loop that needs more walks a cycle and never ends
LoopFuel == 2 * RbMaxKey + 4

\* The value of an expression, computed once: Only({e(v) : v \in {d}}) is
\* e(d) with d evaluated a single time.
Only(S) == CHOOSE v \in S : TRUE

RbLeftRotate(T0, x) ==
    Only({
        IF ~Readable(T, x) THEN Fault(T) ELSE
        LET y == T.heap[x].right
        IN  IF ~Readable(T, y) THEN Fault(T) ELSE
            LET yl == T.heap[y].left
                T1 == [T EXCEPT !.rotations = @ + 1, !.heap[x].right = yl]
            IN  IF yl # TNULL /\ ~Readable(T, yl) THEN Fault(T) ELSE
                Only({
                    LET xp == T2.heap[x].parent
                        T3 == SetParent(T2, y, xp)
                    IN  IF xp # TNULL /\ ~Readable(T2, xp) THEN Fault(T2) ELSE
                        Only({ SetParent(SetLeft(T4, y, x), x, y)
                               : T4 \in {IF xp = TNULL THEN [T3 EXCEPT !.root = y]
                                         ELSE IF x = T3.heap[xp].left
                                              THEN SetLeft(T3, xp, y)
                                         ELSE SetRight(T3, xp, y)} })
                    : T2 \in {IF yl # TNULL THEN SetParent(T1, yl, x) ELSE T1} })
        : T \in {T0} })

RbRightRotate(T0, y) ==
    Only({
        IF ~Readable(T, y) THEN Fault(T) ELSE
        LET x == T.heap[y].left
        IN  IF ~Readable(T, x) THEN Fault(T) ELSE
            LET xr == T.heap[x].right
                T1 == [T EXCEPT !.rotations = @ + 1, !.heap[y].left = xr]
            IN  IF xr # TNULL /\ ~Readable(T, xr) THEN Fault(T) ELSE
                Only({
                    LET yp == T2.heap[y].parent
                        T3 == SetParent(T2, x, yp)
                    IN  IF yp # TNULL /\ ~Readable(T2, yp) THEN Fault(T2) ELSE
                        Only({ SetParent(SetRight(T4, x, y), y, x)
                               : T4 \in {IF yp = TNULL THEN [T3 EXCEPT !.root = x]
                                         ELSE IF y = T3.heap[yp].right
                                              THEN SetRight(T3, yp, x)
                                         ELSE SetLeft(T3, yp, x)} })
                    : T2 \in {IF xr # TNULL THEN SetParent(T1, xr, y) ELSE T1} })
        : T \in {T0} })

\* the two mirrored halves of insertFix and deleteFix are written once, for
\* the side ("L" or "R") on which the node hangs under its parent
Opp(side) == IF side = "L" THEN "R" ELSE "L"
Child(T, p, side) == IF side = "L" THEN T.heap[p].left ELSE T.heap[p].right
Rotate(T, p, side) == IF side = "L" THEN RbLeftRotate(T, p) ELSE RbRightRotate(T, p)

\* insertFix, the uncle is black (lines 425-427 and 443-445): recolour the
\* parent and the grandparent of k and rotate the grandparent; [T, k]
InsertFixOuter(T0, k, side) ==
    Only({
        IF Faulted(T) THEN [T |-> T, k |-> k] ELSE
        LET p == T.heap[k].parent
        IN  IF ~Readable(T, p) THEN [T |-> Fault(T), k |-> k] ELSE
            LET g == T.heap[p].parent
            IN  IF ~Readable(T, g) THEN [T |-> Fault(T), k |-> k] ELSE
                [T |-> Rotate(Recolor(Recolor(T, p, BLACK), g, RED), g, Opp(side)),
                 k |-> k]
        : T \in {T0} })

\* One round of the while loop of insertFix; the result is [T, k].
InsertFixRound(T, k) ==
    LET kp == T.heap[k].parent
        kpp == T.heap[kp].parent
    IN  IF ~Readable(T, kpp) THEN [T |-> Fault(T), k |-> k] ELSE
        LET side == IF kp = T.heap[kpp].right THEN "R" ELSE "L"
            u == Child(T, kpp, Opp(side))
        IN  IF ~Readable(T, u) THEN [T |-> Fault(T), k |-> k]
            ELSE IF T.heap[u].color = RED
            THEN [T |-> Recolor(Recolor(Recolor(T, u, BLACK), kp, BLACK), kpp, RED),
                  k |-> kpp]
            ELSE IF k = Child(T, kp, Opp(side))
            THEN InsertFixOuter(Rotate(T, kp, side), kp, side)
            ELSE InsertFixOuter(T, k, side)

RECURSIVE InsertFixLoop(_, _, _)
InsertFixLoop(T, k, fuel) ==
    IF Faulted(T) THEN T
    ELSE IF fuel = 0 THEN Diverge(T)
    ELSE IF ~Readable(T, k) THEN Fault(T)
    ELSE IF k = T.root THEN T
    ELSE IF ~Readable(T, T.heap[k].parent) THEN Fault(T)
    ELSE IF T.heap[T.heap[k].parent].color # RED THEN T
    ELSE Only({ InsertFixLoop(r.T, r.k, fuel - 1) : r \in {InsertFixRound(T, k)} })

insertFix(T, k) ==
    Only({
        IF Faulted(T1) THEN T1
        ELSE IF ~Readable(T1, T1.root) THEN Fault(T1)
        ELSE IF T1.heap[T1.root].color # BLACK THEN Recolor(T1, T1.root, BLACK)
        ELSE T1
        : T1 \in {InsertFixLoop(T, k, LoopFuel)} })

transplant(T0, u, v) ==
    Only({
        IF ~Readable(T, u) THEN Fault(T) ELSE
        LET up == T.heap[u].parent
        IN  IF up # TNULL /\ ~Readable(T, up) THEN Fault(T)
            ELSE IF ~Readable(T, v) THEN Fault(T)
            ELSE SetParent(IF up = TNULL THEN [T EXCEPT !.root = v]
                           ELSE IF u = T.heap[up].left THEN SetLeft(T, up, v)
                           ELSE SetRight(T, up, v),
                           v, up)
        : T \in {T0} })

\* deleteFix, the last case (lines 526-530 and 552-556): [T, x]
DeleteFixFar(T0, x, side) ==
    Only({
        IF Faulted(T) THEN [T |-> T, x |-> x] ELSE
        LET xp == T.heap[x].parent
        IN  IF ~Readable(T, xp) THEN [T |-> Fault(T), x |-> x] ELSE
            LET s == Child(T, xp, Opp(side))
            IN  IF ~Readable(T, s) THEN [T |-> Fault(T), x |-> x] ELSE
                LET far == Child(T, s, Opp(side))
                IN  IF ~Readable(T, far) THEN [T |-> Fault(T), x |-> x] ELSE
                    Only({ [T |-> T3, x |-> T3.root]
                           : T3 \in {Rotate(Recolor(Recolor(SetColor(T, s, T.heap[xp].color),
                                                            xp, BLACK),
                                                    far, BLACK),
                                            xp, side)} })
        : T \in {T0} })

\* deleteFix from the test of the sibling's children on (lines 515-531 and
\* 542-557): [T, x]
DeleteFixSibling(T0, x, side) ==
    Only({
        IF Faulted(T) THEN [T |-> T, x |-> x] ELSE
        LET xp == T.heap[x].parent
        IN  IF ~Readable(T, xp) THEN [T |-> Fault(T), x |-> x] ELSE
            LET s == Child(T, xp, Opp(side))
            IN  IF ~Readable(T, s) THEN [T |-> Fault(T), x |-> x] ELSE
                LET sl == T.heap[s].left
                    sr == T.heap[s].right
                    far == Child(T, s, Opp(side))
                IN  IF ~Readable(T, sl) THEN [T |-> Fault(T), x |-> x]
                    ELSE IF T.heap[sl].color = BLACK /\ ~Readable(T, sr)
                    THEN [T |-> Fault(T), x |-> x]
                    ELSE IF T.heap[sl].color = BLACK /\ T.heap[sr].color = BLACK
                    THEN [T |-> Recolor(T, s, RED), x |-> xp]
                    ELSE IF ~Readable(T, far) THEN [T |-> Fault(T), x |-> x]
                    ELSE IF T.heap[far].color = BLACK
                    THEN DeleteFixFar(Rotate(Recolor(Recolor(T, Child(T, s, side), BLACK),
                                                     s, RED),
                                             s, Opp(side)),
                                      x, side)
                    ELSE DeleteFixFar(T, x, side)
        : T \in {T0} })

\* One round of the while loop of deleteFix; the result is [T, x].
DeleteFixRound(T, x) ==
    LET xp == T.heap[x].parent
    IN  IF ~Readable(T, xp) THEN [T |-> Fault(T), x |-> x] ELSE
        LET side == IF x = T.heap[xp].left THEN "L" ELSE "R"
            s == Child(T, xp, Opp(side))
        IN  IF ~Readable(T, s) THEN [T |-> Fault(T), x |-> x]
            ELSE IF T.heap[s].color = RED
            THEN DeleteFixSibling(Rotate(Recolor(Recolor(T, s, BLACK), xp, RED),
                                         xp, side),
                                  x, side)
            ELSE DeleteFixSibling(T, x, side)

RECURSIVE DeleteFixLoop(_, _, _)
DeleteFixLoop(T, x, fuel) ==
    IF Faulted(T) THEN [T |-> T, x |-> x]
    ELSE IF fuel = 0 THEN [T |-> Diverge(T), x |-> x]
    ELSE IF x = T.root THEN [T |-> T, x |-> x]
    ELSE IF ~Readable(T, x) THEN [T |-> Fault(T), x |-> x]
    ELSE IF T.heap[x].color # BLACK THEN [T |-> T, x |-> x]
    ELSE Only({ DeleteFixLoop(r.T, r.x, fuel - 1) : r \in {DeleteFixRound(T, x)} })

\* deleteFix without its last statement (lines 559-562)
deleteFix_NoFinalBlack(T, x) ==
    Only({ r.T : r \in {DeleteFixLoop(T, x, LoopFuel)} })

deleteFix(T, x) ==
    Only({
        IF Faulted(r.T) THEN r.T
        ELSE IF ~Readable(r.T, r.x) THEN Fault(r.T)
        ELSE IF r.T.heap[r.x].color # BLACK THEN Recolor(r.T, r.x, BLACK)
        ELSE r.T
        : r \in {DeleteFixLoop(T, x, LoopFuel)} })

\* minimum returns [T, node]
RECURSIVE minimum(_, _, _)
minimum(T, node, fuel) ==
    IF fuel = 0 THEN [T |-> Diverge(T), node |-> node]
    ELSE IF ~Readable(T, node) THEN [T |-> Fault(T), node |-> node]
    ELSE IF T.heap[node].left = TNULL THEN [T |-> T, node |-> node]
    ELSE minimum(T, T.heap[node].left, fuel - 1)

\* The descent of findNode from current: [node, comparisons, fault]; a node's
\* key is the node's name.
RECURSIVE RbDescend(_, _, _, _, _)
RbDescend(T, key, current, comparisons, fuel) ==
    IF current = TNULL
    THEN [node |-> TNULL, comparisons |-> comparisons, fault |-> "none"]
    ELSE IF fuel = 0
    THEN [node |-> TNULL, comparisons |-> comparisons, fault |-> "loop"]
    ELSE IF ~Readable(T, current)
    THEN [node |-> TNULL, comparisons |-> comparisons, fault |-> "trap"]
    ELSE IF key < current
    THEN RbDescend(T, key, T.heap[current].left, comparisons + 1, fuel - 1)
    ELSE IF key > current
    THEN RbDescend(T, key, T.heap[current].right, comparisons + 2, fuel - 1)
    ELSE [node |-> current, comparisons |-> comparisons + 2, fault |-> "none"]

\* findNode returns [T, node]
RbFindNode(T, key) ==
    Only({ [T |-> [T EXCEPT !.comparisons = @ + d.comparisons, !.fault = d.fault],
            node |-> d.node]
           : d \in {RbDescend(T, key, T.root, 0, LoopFuel)} })

\* The descent of _insert below x, y being the node above: [y, found,
\* comparisons, fault].
RECURSIVE InsertDescent(_, _, _, _, _, _)
InsertDescent(T, key, y, x, comparisons, fuel) ==
    IF x = TNULL
    THEN [y |-> y, found |-> FALSE, comparisons |-> comparisons, fault |-> "none"]
    ELSE IF fuel = 0
    THEN [y |-> y, found |-> FALSE, comparisons |-> comparisons, fault |-> "loop"]
    ELSE IF ~Readable(T, x)
    THEN [y |-> y, found |-> FALSE, comparisons |-> comparisons, fault |-> "trap"]
    ELSE IF key < x
    THEN InsertDescent(T, key, x, T.heap[x].left, comparisons + 1, fuel - 1)
    ELSE IF key > x
    THEN InsertDescent(T, key, x, T.heap[x].right, comparisons + 2, fuel - 1)
    ELSE [y |-> x, found |-> TRUE, comparisons |-> comparisons + 2, fault |-> "none"]

\* every pointer to p becomes a pointer to memory that is no longer a node
Forget(heap, p) ==
    [q \in DOMAIN heap |->
        [heap[q] EXCEPT !.parent = IF @ = p THEN GONE ELSE @,
                        !.left = IF @ = p THEN GONE ELSE @,
                        !.right = IF @ = p THEN GONE ELSE @]]

\* new RBNode for key: the allocator hands out the memory of the deleted node
\* that held key (reuse) or other memory
NewNode(T, key, value, reuse) ==
    [T EXCEPT !.heap = [(IF T.heap[key].st = "stale" /\ ~reuse
                         THEN Forget(T.heap, key) ELSE T.heap)
                        EXCEPT ![key] = RBNode(value)]]

\* _insert once the descent has ended at TNULL below y
InsertBelow(T, y, key, value_to_add, reuse) ==
    Only({ IF T3.heap[key].parent = TNULL
           THEN Recolor(T3, key, BLACK)
           ELSE insertFix(T3, key)
           : T3 \in {LET T1 == [NewNode(T, key, value_to_add, reuse)
                                   EXCEPT !.heap[key].parent = y,
                                          !.heap[key].left = TNULL,
                                          !.heap[key].right = TNULL,
                                          !.heap[key].color = RED,
                                          !.assigned = @ + 1,
                                          !.nodeCount = @ + 1]
                     IN  IF y = TNULL THEN [T1 EXCEPT !.root = key]
                         ELSE IF key < y THEN SetLeft(T1, y, key)
                         ELSE SetRight(T1, y, key)} })

Rb_insert(T, key, value_to_add, reuse) ==
    Only({ IF d.fault # "none" THEN [T EXCEPT !.fault = d.fault]
           ELSE IF d.found
           THEN [T EXCEPT !.comparisons = @ + d.comparisons,
                          !.heap[key].val = value_to_add]
           ELSE InsertBelow([T EXCEPT !.comparisons = @ + d.comparisons],
                            d.y, key, value_to_add, reuse)
           : d \in {InsertDescent(T, key, TNULL, T.root, 0, LoopFuel)} })

\* _remove, z has two children (lines 675-688), y being minimum(z->right)
RemoveTwoChildren(T, z, y) ==
    LET x == T.heap[y].right
        yp == T.heap[y].parent
        out(U) == [T |-> U, x |-> x, y_original_color |-> T.heap[y].color,
                   hang |-> IF yp = z THEN y ELSE yp]
        Spliced(Ta) ==
            IF Faulted(Ta) THEN Ta
            ELSE Only({ IF Faulted(Tb) THEN Tb
                        ELSE IF ~Readable(Tb, Tb.heap[z].left) THEN Fault(Tb)
                        ELSE SetColor(SetParent(SetLeft(Tb, y, Tb.heap[z].left),
                                                Tb.heap[z].left, y),
                                      y, Tb.heap[z].color)
                        : Tb \in {transplant(Ta, z, y)} })
    IN  IF yp = z
        THEN IF x = TNULL THEN out(Spliced(T))
             ELSE IF ~Readable(T, x) THEN out(Fault(T))
             ELSE out(Spliced(SetParent(T, x, y)))
        ELSE Only({ IF Faulted(U1) THEN out(U1)
                    ELSE IF ~Readable(U1, U1.heap[z].right) THEN out(Fault(U1))
                    ELSE out(Only({ Spliced(U2)
                                    : U2 \in {SetParent(SetRight(U1, y, U1.heap[z].right),
                                                        U1.heap[z].right, y)} }))
                    : U1 \in {transplant(T, y, x)} })

\* _remove up to "delete z": [T, x, y_original_color, hang], where hang is
\* the node under which the position of x hangs once y has left it
RemoveUnlink(T, z) ==
    LET out(U, x, c, h) == [T |-> U, x |-> x, y_original_color |-> c, hang |-> h]
        zl == T.heap[z].left
        zr == T.heap[z].right
        zc == T.heap[z].color
    IN  IF zl = TNULL THEN out(transplant(T, z, zr), zr, zc, T.heap[z].parent)
        ELSE IF zr = TNULL THEN out(transplant(T, z, zl), zl, zc, T.heap[z].parent)
        ELSE Only({ IF Faulted(m.T) THEN out(m.T, TNULL, zc, TNULL)
                    ELSE RemoveTwoChildren(T, z, m.node)
                    : m \in {minimum(T, zr, LoopFuel)} })

NoFix == [entered |-> FALSE, x |-> TNULL, xparent |-> TNULL, hang |-> TNULL]

Rb_remove(T, node_to_delete) ==
    LET z == node_to_delete
    IN  IF ~Readable(T, z) THEN Fault(T) ELSE
        Only({ IF Faulted(u.T) THEN u.T
               ELSE Only({ IF u.y_original_color = BLACK
                           THEN deleteFix([T1 EXCEPT !.fix =
                                              [entered |-> TRUE, x |-> u.x,
                                               xparent |-> IF Readable(T1, u.x)
                                                           THEN T1.heap[u.x].parent
                                                           ELSE GONE,
                                               hang |-> u.hang]],
                                          u.x)
                           ELSE T1
                           : T1 \in {[u.T EXCEPT !.heap[z] = Deleted(@),
                                                 !.nodeCount = @ - 1]} })
               : u \in {RemoveUnlink(T, z)} })

RbRemoveKey(T, key) ==
    Only({ IF Faulted(f.T) THEN f.T
           ELSE IF f.node = TNULL THEN f.T
           ELSE Rb_remove(f.T, f.node)
           : f \in {RbFindNode(T, key)} })

RECURSIVE destroy(_, _, _)
destroy(T0, node, fuel) ==
    Only({ IF Faulted(T) \/ node = TNULL THEN T
           ELSE IF fuel = 0 THEN Diverge(T)
           ELSE IF ~Readable(T, node) THEN Fault(T)
           ELSE Only({ IF Faulted(T1) THEN T1
                       ELSE Only({ IF Faulted(T2) THEN T2
                                   ELSE [T2 EXCEPT !.heap[node] = Deleted(@)]
                                   : T2 \in {destroy(T1, T1.heap[node].right, fuel - 1)} })
                       : T1 \in {destroy(T, T.heap[node].left, fuel - 1)} })
           : T \in {T0} })

RbClearAll(T) ==
    Only({ IF Faulted(T1) THEN T1
           ELSE [T1 EXCEPT !.root = TNULL, !.nodeCount = 0, !.comparisons = 0,
                           !.rotations = 0, !.colors = 0]
           : T1 \in {destroy(T, T.root, LoopFuel)} })

\* The memory of a deleted node is kept while a pointer to it is left in the
\* sentinel or in a live node, or in deleted memory no more than StaleDepth
\* links away from those; a pointer to deleted memory further away is GONE.
StaleDepth == 1

Refs(heap, S) == UNION {{heap[q].parent, heap[q].left, heap[q].right} : q \in S}

RECURSIVE Reach(_, _, _)
Reach(heap, S, n) ==
    IF n = 0 THEN S
    ELSE Only({ Reach(heap, S1, n - 1) : S1 \in {S \cup (Refs(heap, S) \cap RbKeys)} })

Release(T) ==
    LET kept(q, S) == IF q \in RbKeys /\ q \notin S THEN GONE ELSE q
    IN  Only({ [T EXCEPT !.heap =
                   [p \in DOMAIN T.heap |->
                       IF p \in S
                       THEN [T.heap[p] EXCEPT !.parent = kept(@, S),
                                              !.left = kept(@, S),
                                              !.right = kept(@, S)]
                       ELSE FreeNode]]
               : S \in {Reach(T.heap,
                              {TNULL} \cup {p \in RbKeys : T.heap[p].st = "live"}
                                  \cup ({T.root} \cap RbKeys),
                              StaleDepth)} })

\* The tree is a binary search tree of live nodes whose parent links lead
\* back to the root.
RECURSIVE IsSearchTree(_, _, _, _, _)
IsSearchTree(heap, p, parent, lo, hi) ==
    IF p = TNULL THEN TRUE
    ELSE IF p \notin RbKeys THEN FALSE
    ELSE /\ heap[p].st = "live"
         /\ heap[p].parent = parent
         /\ lo < p /\ p < hi
         /\ IsSearchTree(heap, heap[p].left, p, lo, p)
         /\ IsSearchTree(heap, heap[p].right, p, p, hi)

\* The links are followed as they are: a link that is no node, or a path
\* that does not reach the sentinel within fuel nodes, fails the test.

\* no red node below p has a red child
RECURSIVE NoRedRed(_, _, _)
NoRedRed(heap, p, fuel) ==
    IF p = TNULL THEN TRUE
    ELSE IF p \notin RbKeys \/ fuel = 0 THEN FALSE
    ELSE LET l == heap[p].left
             r == heap[p].right
             black(q) == q \in {TNULL} \cup RbKeys /\ heap[q].color = BLACK
         IN  /\ heap[p].color = RED => black(l) /\ black(r)
             /\ NoRedRed(heap, l, fuel - 1)
             /\ NoRedRed(heap, r, fuel - 1)

\* the number of black nodes on every path from p down to the sentinel, the
\* sentinel included, or -1 when two paths differ
RECURSIVE BlackHeight(_, _, _)
BlackHeight(heap, p, fuel) ==
    IF p = TNULL THEN 1
    ELSE IF p \notin RbKeys \/ fuel = 0 THEN -1
    ELSE Only({ IF l < 0 THEN -1
                ELSE IF BlackHeight(heap, heap[p].right, fuel - 1) # l THEN -1
                ELSE l + (IF heap[p].color = BLACK THEN 1 ELSE 0)
                : l \in {BlackHeight(heap, heap[p].left, fuel - 1)} })

RECURSIVE RbSubtree(_, _)
RbSubtree(heap, p) ==
    IF p = TNULL THEN {}
    ELSE {p} \cup RbSubtree(heap, heap[p].left) \cup RbSubtree(heap, heap[p].right)

RbIsTree == IsSearchTree(rbHeap, rbRoot, TNULL, 0, RbMaxKey + 1)

RbColorsValid ==
    /\ NoRedRed(rbHeap, rbRoot, LoopFuel)
    /\ BlackHeight(rbHeap, rbRoot, LoopFuel) >= 0

\* Calls are explored on valid red-black trees; a state whose tree is not
\* one is reached and kept, and no call is explored from it.
RbCallable ==
    /\ rbFault = "none"
    /\ RbIsTree
    /\ RbColorsValid
    /\ rbHeap[TNULL].color = BLACK
    /\ rbNodeCount = Cardinality(RbSubtree(rbHeap, rbRoot))

RbTree(uaf) ==
    [heap |-> rbHeap, root |-> rbRoot, nodeCount |-> rbNodeCount,
     rotations |-> rbRotations, colors |-> rbColors,
     comparisons |-> rbComparisons, assigned |-> 0,
     fault |-> "none", uaf |-> uaf, fix |-> NoFix]

\* contains(key): [fault, found]
RbContains(T, key) ==
    Only({ [fault |-> f.T.fault, found |-> f.node # TNULL]
           : f \in {RbFindNode(T, key)} })

\* get(key): [fault, found, val, comparisons]; found is FALSE when get throws
\* std::runtime_error, val is the value returned otherwise
RbGet(T, key) ==
    Only({ [fault |-> f.T.fault,
            found |-> f.node # TNULL,
            val |-> IF Faulted(f.T) \/ f.node = TNULL THEN NoVal
                    ELSE f.T.heap[f.node].val,
            comparisons |-> f.T.comparisons]
           : f \in {RbFindNode(T, key)} })

\* size()
RbSize == rbNodeCount

\* isEmpty()
RbIsEmpty == rbNodeCount = 0

\* in_Order_vec(node, keys_vec): [fault, keys]. The recursion is one frame
\* per link followed; a path of more than RbMaxKey nodes repeats a node, and
\* the recursion never returns.
RECURSIVE RbInOrderVec(_, _, _)
RbInOrderVec(T, node, fuel) ==
    IF node = TNULL THEN [fault |-> "none", keys |-> <<>>]
    ELSE IF ~Readable(T, node) THEN [fault |-> "trap", keys |-> <<>>]
    ELSE IF fuel = 0 THEN [fault |-> "loop", keys |-> <<>>]
    ELSE Only({ IF l.fault # "none" THEN l
                ELSE Only({ IF r.fault # "none" THEN r
                            ELSE [fault |-> "none",
                                  keys |-> l.keys \o <<node>> \o r.keys]
                            : r \in {RbInOrderVec(T, T.heap[node].right, fuel - 1)} })
                : l \in {RbInOrderVec(T, T.heap[node].left, fuel - 1)} })

\* get_all_keys_sorted(): [fault, keys]
RbKeysSorted(T) ==
    IF T.nodeCount = 0 THEN [fault |-> "none", keys |-> <<>>]
    ELSE RbInOrderVec(T, T.root, RbMaxKey)

\* the state a call leaves behind: a call that stopped the process leaves
\* the tree as it found it and no further call is made
RbStore(result, op, key, expect) ==
    \E r \in {result} :
        /\ Metered => r.comparisons <= MaxComparisons
        /\ rbFault' = r.fault
        /\ rbLast' = [op |-> op, key |-> key, fix |-> r.fix]
        /\ IF Faulted(r)
           THEN UNCHANGED <<rbHeap, rbRoot, rbNodeCount, rbComparisons,
                            rbRotations, rbColors, rbExpect>>
           ELSE \E c \in {Release(r)} :
                    /\ rbHeap' = c.heap
                    /\ rbRoot' = c.root
                    /\ rbNodeCount' = c.nodeCount
                    /\ rbComparisons' = Counted(rbComparisons, c.comparisons)
                    /\ rbRotations' = Counted(rbRotations, c.rotations)
                    /\ rbColors' = Counted(rbColors, c.colors)
                    /\ rbExpect' = expect

RbInit ==
    /\ rbHeap = [p \in {TNULL} \cup RbKeys |->
                    IF p = TNULL THEN initializeTNULL ELSE FreeNode]
    /\ rbRoot = TNULL
    /\ rbNodeCount = 0
    /\ rbComparisons = 0
    /\ rbRotations = 0
    /\ rbColors = 0
    /\ rbFault = "none"
    /\ rbExpect = [k \in RbKeys |-> NoVal]
    /\ rbLast = [op |-> "new", key |-> 0, fix |-> NoFix]

RbAdd(key, value_to_add, uaf, reuse) ==
    /\ RbCallable
    /\ UNCHANGED <<runVars, oaVars, avlVars>>
    /\ RbStore(Rb_insert(RbTree(uaf), key, value_to_add, reuse), "add", key,
               [rbExpect EXCEPT ![key] = value_to_add])

RbRemove(key, uaf) ==
    /\ RbCallable
    /\ UNCHANGED <<runVars, oaVars, avlVars>>
    /\ RbStore(RbRemoveKey(RbTree(uaf), key), "remove", key,
               [rbExpect EXCEPT ![key] = NoVal])

RbClear(uaf) ==
    /\ RbCallable
    /\ UNCHANGED <<runVars, oaVars, avlVars>>
    /\ RbStore(RbClearAll(RbTree(uaf)), "clear", 0, [k \in RbKeys |-> NoVal])

UafOutcomes == {"trap", "stale"}

\* add and clear delete no node before they follow a link: their outcomes
\* differ only where a deleted node was left behind by an earlier call
UafOutcomesLeft ==
    IF \E p \in RbKeys : rbHeap[p].st = "stale" THEN UafOutcomes ELSE {"trap"}

ReuseOutcomes(key) == IF rbHeap[key].st = "stale" THEN BOOLEAN ELSE {TRUE}

\* get(key) and contains(key): const members, findNode counts comparisons
RbGetCall(key, uaf) ==
    /\ RbCallable
    /\ UNCHANGED <<runVars, oaVars, avlVars>>
    /\ RbStore(RbFindNode(RbTree(uaf), key).T, "get", key, rbExpect)

RbContainsCall(key, uaf) ==
    /\ RbCallable
    /\ UNCHANGED <<runVars, oaVars, avlVars>>
    /\ RbStore(RbFindNode(RbTree(uaf), key).T, "contains", key, rbExpect)

RbAddStep == \E k \in RbKeys, v \in Values, uaf \in UafOutcomesLeft :
                 \E reuse \in ReuseOutcomes(k) : RbAdd(k, v, uaf, reuse)
RbRemoveStep == \E k \in RbKeys, uaf \in UafOutcomes : RbRemove(k, uaf)
RbClearStep == \E uaf \in UafOutcomesLeft : RbClear(uaf)

-----------------------------------------------------------------------------
(* ReadTxt: the text of a file, read line by line *)

\* Characters are bytes. The lines a file is made of in the model:
\*   "A z."   "a\xE2\x80\x94z" (an em dash)   "a-b -"   "\xC3\x81 \xC3\xA1"   "-z ."
Lines ==
    { <<65, 32, 122, 46>>,
      <<97, 226, 128, 148, 122>>,
      <<97, 45, 98, 32, 45>>,
      <<195, 129, 32, 195, 161>>,
      <<45, 122, 32, 46>> }

\* the lines of a file are MaxLines at most
MaxLines == 3

\* The cleaned words those lines hold, in the order of lexicalStr::operator<
\* under pt_BR.UTF-8 (the keys of the trees): "a", "\xC3\xA1", "a-b", "z"
WordList == << <<97>>, <<195, 161>>, <<97, 45, 98>>, <<122>> >>

\* std::hash<std::string> of those words. The table sees a string through
\* its hash and through ==; the hashes are those of libstdc++ (64 bits:
\* 4993892634952068459, 16481542564847034199, 848002912096359914,
\* 17970277606898470454) modulo 520, which keeps what find_slot uses of them:
\* the remainders by HASH_PRIME and by the table sizes 5, 10, 20 and 40.
WordHash == <<339, 239, 154, 94>>

WordIds == 1..Len(WordList)

WordId(w) == CHOOSE i \in WordIds : WordList[i] = w

\* initialize_accent_map: second byte of an upper-case accented letter ->
\* second byte of its lower-case letter
accent_map ==
    [c \in {128, 129, 130, 131, 135, 136, 137, 138, 140, 141, 146, 147, 148,
            149, 153, 154} |-> c + 32]

isalpha(c) == c \in 65..90 \/ c \in 97..122

isdigit(c) == c \in 48..57

tolower(c) == IF c \in 65..90 THEN c + 32 ELSE c

\* the for loop of clean_word from index i (counted from 0) on
RECURSIVE clean_word_loop(_, _, _)
clean_word_loop(raw_word, i, final_word) ==
    IF i >= Len(raw_word) THEN final_word
    ELSE IF raw_word[i + 1] = 195 /\ i + 1 < Len(raw_word)
    THEN clean_word_loop(raw_word, i + 2,
             final_word \o <<195, IF raw_word[i + 2] \in DOMAIN accent_map
                                  THEN accent_map[raw_word[i + 2]]
                                  ELSE raw_word[i + 2]>>)
    ELSE IF isalpha(raw_word[i + 1])
    THEN clean_word_loop(raw_word, i + 1, final_word \o <<tolower(raw_word[i + 1])>>)
    ELSE IF \/ isdigit(raw_word[i + 1])
            \/ (raw_word[i + 1] = 45 /\ i > 0 /\ i < Len(raw_word) - 1)
    THEN clean_word_loop(raw_word, i + 1, final_word \o <<raw_word[i + 1]>>)
    ELSE clean_word_loop(raw_word, i + 1, final_word)

clean_word(raw_word) == clean_word_loop(raw_word, 0, <<>>)

\* processFile: the em dash (0xE2 0x80 0x94) of a line becomes a space
RECURSIVE processed_line(_, _)
processed_line(line, i) ==
    IF i >= Len(line) THEN <<>>
    ELSE IF /\ line[i + 1] = 226 /\ i + 2 < Len(line)
            /\ line[i + 2] = 128 /\ line[i + 3] = 148
    THEN <<32>> \o processed_line(line, i + 3)
    ELSE <<line[i + 1]>> \o processed_line(line, i + 1)

\* while (ss >> word): the words of a line, split at the spaces; word is the
\* word being read
RECURSIVE words_of(_, _, _)
words_of(line, i, word) ==
    IF i > Len(line)
    THEN IF word = <<>> THEN <<>> ELSE <<word>>
    ELSE IF line[i] = 32
    THEN (IF word = <<>> THEN <<>> ELSE <<word>>) \o words_of(line, i + 1, <<>>)
    ELSE words_of(line, i + 1, word \o <<line[i]>>)

\* the cleaned, non-empty words of a line, in their order
RECURSIVE cleaned_words(_)
cleaned_words(raw_words) ==
    IF raw_words = <<>> THEN <<>>
    ELSE (IF clean_word(Head(raw_words)) = <<>> THEN <<>>
          ELSE <<WordId(clean_word(Head(raw_words)))>>)
         \o cleaned_words(Tail(raw_words))

WordsOfLine(line) == cleaned_words(words_of(processed_line(line, 0), 1, <<>>))

\* KeyType key(cleaned_word) is a lexicalStr for the trees (the rank of the
\* word in WordList) and a std::string for the hash table (its WordHash).

\* the body of the inner loop on each dictionary:
\*   if (dictionary.contains(key)) dictionary.add(key, dictionary.get(key) + 1);
\*   else dictionary.add(key, 1);
\* (get's result is copied into an int before add is called)
OaCount(t, key) ==
    Only({ IF contains(t, key)
           THEN add([c EXCEPT !.comparisons = get_comparisons_after_get(c, key)],
                    key, get(t, key) + 1)
           ELSE add(c, key, 1)
           : c \in {[t EXCEPT !.comparisons =
                                 get_comparisons_after_contains(t, key)]} })

AvlCount(a, key) ==
    Only({ IF c.node.isNull
           THEN _insert(a.node, key, 1, c.m)
           ELSE Only({ _insert(a.node, key, g.node.val + 1, g.m)
                       : g \in {findNode(a.node, key, c.m)} })
           : c \in {findNode(a.node, key, a.m)} })

RbCount(T, key) ==
    Only({ IF Faulted(c.T) THEN c.T
           ELSE IF c.node = TNULL THEN Rb_insert(c.T, key, 1, TRUE)
           ELSE Only({ IF Faulted(g.T) THEN g.T
                       ELSE Rb_insert(g.T, key, g.T.heap[g.node].val + 1, TRUE)
                       : g \in {RbFindNode(c.T, key)} })
           : c \in {RbFindNode(T, key)} })

RECURSIVE OaCountAll(_, _)
OaCountAll(t, ws) ==
    IF ws = <<>> THEN t
    ELSE OaCountAll(OaCount(t, WordHash[Head(ws)]), Tail(ws))

RECURSIVE AvlCountAll(_, _)
AvlCountAll(a, ws) ==
    IF ws = <<>> THEN a
    ELSE Only({ AvlCountAll(a1, Tail(ws)) : a1 \in {AvlCount(a, Head(ws))} })

RECURSIVE RbCountAll(_, _)
RbCountAll(T, ws) ==
    IF ws = <<>> \/ Faulted(T) THEN T
    ELSE Only({ RbCountAll(T1, Tail(ws)) : T1 \in {RbCount(T, Head(ws))} })

\* the occurrences counted so far, with those of the words ws added
RECURSIVE Tally(_, _)
Tally(f, ws) ==
    IF ws = <<>> THEN f
    ELSE Tally([f EXCEPT ![Head(ws)] = @ + 1], Tail(ws))

\* One turn of the while (std::getline(file, line)) loop of processFile.
ProcessLine(line) ==
    /\ fed < MaxLines
    /\ fed' = fed + 1
    /\ UNCHANGED <<structure_type, metering, mainVars>>
    /\ \E ws \in {WordsOfLine(line)} :
        /\ freq' = Tally(freq, ws)
        /\ \/ /\ structure_type = "open_hash"
              /\ UNCHANGED <<avlVars, rbVars>>
              /\ OaStore(OaCountAll(OaTable, ws))
              /\ UNCHANGED oaExpect
              /\ oaLast' = [op |-> "processFile", key |-> 0, present |-> FALSE]
           \/ /\ structure_type = "avl"
              /\ UNCHANGED <<oaVars, rbVars>>
              /\ \E a \in {AvlCountAll([node |-> avlRoot, m |-> AvlCounters], ws)} :
                     AvlStore(a.node, a.m)
              /\ UNCHANGED avlExpect
              /\ avlLast' = [op |-> "processFile", key |-> 0, rotations |-> 0,
                             root |-> AvlRootKey]
           \/ /\ structure_type = "rb"
              /\ RbCallable
              /\ UNCHANGED <<oaVars, avlVars>>
              /\ RbStore(RbCountAll(RbTree("trap"), ws), "processFile", 0, rbExpect)

-----------------------------------------------------------------------------
(* Specifications *)

\* the run: which dictionary, whether the counters are followed, no line read
RunInit(types, meter) ==
    /\ structure_type \in types
    /\ metering = meter
    /\ fed = 0
    /\ freq = [w \in WordIds |-> 0]
    /\ pc = "none"
    /\ argc = 3
    /\ argv1 = "none"
    /\ argv3 = "none"
    /\ todo = <<>>
    /\ input_open = TRUE
    /\ output_open = TRUE
    /\ cerr = {}
    /\ report = FALSE
    /\ exit_status = 0

\* the open-addressing table and its operations
Init == RunInit({"none"}, FALSE) /\ OaInit /\ AvlInit /\ RbInit

Next == OaAddStep \/ OaRemoveStep \/ OaClear

Spec == Init /\ [][Next]_vars

\* the smallest tables: OpenAddressingHashTable(tableSize, 0.75f) for
\* tableSize in LoadCaps, and add, remove and clear over the keys of OaKeys
LoadCaps == {2, 3, 4}

LoadInit ==
    /\ RunInit({"none"}, FALSE)
    /\ \E tableSize \in LoadCaps : OaNew(tableSize)
    /\ AvlInit
    /\ RbInit

\* the value stored is always 1: the load does not depend on the values
LoadAdd == \E k \in OaKeys : OaAdd(k, 1)

LoadNext == LoadAdd \/ OaRemoveStep \/ OaClear

SpecLoad == LoadInit /\ [][LoadNext]_vars
\* the scenario of the capacity-11 table: nine distinct keys are inserted, in
\* any order, into OpenAddressingHashTable(11, 0.75f)
ScnInit == RunInit({"none"}, FALSE) /\ OaNew(11) /\ AvlInit /\ RbInit

ScnInsert == \E k \in ScnKeys, v \in Values : oaExpect[k] = NoVal /\ OaAdd(k, v)

SpecScenario == ScnInit /\ [][ScnInsert]_vars

\* the AVL tree and its operations (the table stays as default-constructed)
AvlSpecInit == RunInit({"none"}, FALSE) /\ OaNew(19) /\ AvlInit /\ RbInit

AvlNext == AvlAddStep \/ AvlRemoveStep \/ AvlClear

SpecAVL == AvlSpecInit /\ [][AvlNext]_vars

\* the red-black tree and its operations
RbSpecInit == RunInit({"none"}, FALSE) /\ OaNew(19) /\ AvlInit /\ RbInit

RbNext == RbAddStep \/ RbRemoveStep \/ RbClearStep

SpecRB == RbSpecInit /\ [][RbNext]_vars

\* one of the two trees, chosen at the start, and its operations
TreesInit == RunInit({"avl", "rb"}, FALSE) /\ OaNew(19) /\ AvlInit /\ RbInit

TreesNext ==
    \/ structure_type = "avl" /\ AvlNext
    \/ structure_type = "rb" /\ RbNext

SpecTrees == TreesInit /\ [][TreesNext]_vars
\* A run on one dictionary behind IDictionary, with the metric counters
\* followed: the structure is chosen once, then add, remove, get, contains
\* and clear are called on it.
DictInit ==
    /\ RunInit({"avl", "rb", "open_hash"}, TRUE)
    /\ OaNew(5)
    /\ AvlInit
    /\ RbInit

DictAdd ==
    \E v \in DictValues :
        \/ structure_type = "open_hash" /\ \E k \in DictOaKeys : OaAdd(k, v)
        \/ structure_type = "avl" /\ \E k \in DictTreeKeys : AvlAdd(k, v)
        \/ structure_type = "rb" /\ \E k \in DictTreeKeys, uaf \in UafOutcomesLeft :
                                        \E reuse \in ReuseOutcomes(k) :
                                            RbAdd(k, v, uaf, reuse)

DictRemove ==
    \/ structure_type = "open_hash" /\ \E k \in DictOaKeys : OaRemove(k)
    \/ structure_type = "avl" /\ \E k \in DictTreeKeys : AvlRemove(k)
    \/ structure_type = "rb" /\ \E k \in DictTreeKeys, uaf \in UafOutcomes :
                                    RbRemove(k, uaf)

DictGet ==
    \/ structure_type = "open_hash" /\ \E k \in DictOaKeys : OaGetCall(k)
    \/ structure_type = "avl" /\ \E k \in DictTreeKeys : AvlGetCall(k)
    \/ structure_type = "rb" /\ \E k \in DictTreeKeys, uaf \in UafOutcomesLeft :
                                    RbGetCall(k, uaf)

DictContains ==
    \/ structure_type = "open_hash" /\ \E k \in DictOaKeys : OaContainsCall(k)
    \/ structure_type = "avl" /\ \E k \in DictTreeKeys : AvlContainsCall(k)
    \/ structure_type = "rb" /\ \E k \in DictTreeKeys, uaf \in UafOutcomesLeft :
                                    RbContainsCall(k, uaf)

DictClear ==
    \/ structure_type = "open_hash" /\ OaClear
    \/ structure_type = "avl" /\ AvlClear
    \/ structure_type = "rb" /\ \E uaf \in UafOutcomesLeft : RbClear(uaf)

DictNext == DictAdd \/ DictRemove \/ DictGet \/ DictContains \/ DictClear

SpecDict == DictInit /\ [][DictNext]_vars

\* processFile on an initially empty dictionary of either kind: the lines of
\* a file are read one after the other.
FileInit ==
    /\ RunInit({"avl", "rb", "open_hash"}, FALSE)
    /\ OaInit
    /\ AvlInit
    /\ RbInit

FileNext == \E line \in Lines : ProcessLine(line)

SpecFile == FileInit /\ [][FileNext]_vars

\* main(argc, argv): the command-line run. argv[1] and argv[3] are drawn from
\* the strings main tells apart ("other" for the rest); argv[2] names a file
\* that opens or not (input_open); the report file opens or not (output_open).
\* ChainedHashTable is not among the sources: the runs are those of the other
\* three structures.
StructureNames == {"avl", "rb", "open_hash"}

MainInit ==
    /\ structure_type = "none"
    /\ metering = FALSE
    /\ fed = 0
    /\ freq = [w \in WordIds |-> 0]
    /\ pc = "main"
    /\ argc \in {2, 3, 5}
    /\ argv1 \in StructureNames \cup {"--all", "--out", "other"}
    /\ argv3 \in IF argc = 5 THEN {"--out", "other"} ELSE {"none"}
    /\ todo = <<>>
    /\ input_open \in BOOLEAN
    /\ output_open \in BOOLEAN
    /\ cerr = {}
    /\ report = FALSE
    /\ exit_status = 0
    /\ OaNew(19)
    /\ AvlInit
    /\ RbInit

\* main up to the first call of run_and_generate_report, whose make_unique
\* makes the dictionary named by structure_type
MainArgs ==
    /\ pc = "main"
    /\ UNCHANGED <<metering, fed, freq, argc, argv1, argv3, input_open,
                   output_open, report, oaVars, avlVars, rbVars>>
    /\ IF (argc # 3 /\ argc # 5) \/ (argc = 3 /\ argv1 = "--out")
       THEN /\ cerr' = cerr \cup {"Uso"}
            /\ exit_status' = 1
            /\ pc' = "exit"
            /\ UNCHANGED <<structure_type, todo>>
       ELSE IF argv1 = "--all"
       THEN /\ todo' = <<"avl", "rb", "open_hash">>
            /\ pc' = "for"
            /\ UNCHANGED <<structure_type, cerr, exit_status>>
       ELSE IF argc = 5 /\ argv3 # "--out"
       THEN /\ cerr' = cerr \cup {"Erro: argumento opcional invalido"}
            /\ exit_status' = 1
            /\ pc' = "exit"
            /\ UNCHANGED <<structure_type, todo>>
       ELSE IF argv1 \in StructureNames
       THEN /\ structure_type' = argv1
            /\ pc' = "processFile"
            /\ UNCHANGED <<todo, cerr, exit_status>>
       ELSE /\ cerr' = cerr \cup {"Erro: Tipo de estrutura desconhecido"}
            /\ exit_status' = 1
            /\ pc' = "exit"
            /\ UNCHANGED <<structure_type, todo>>

\* for (const auto& s : structures): the next run, or the end of main
MainFor ==
    /\ pc = "for"
    /\ UNCHANGED <<metering, fed, freq, argc, argv1, argv3, input_open,
                   output_open, cerr, report, oaVars, avlVars, rbVars>>
    /\ IF todo = <<>>
       THEN /\ pc' = "exit"
            /\ exit_status' = 0
            /\ UNCHANGED <<structure_type, todo>>
       ELSE /\ structure_type' = Head(todo)
            /\ todo' = Tail(todo)
            /\ pc' = "processFile"
            /\ UNCHANGED exit_status

\* processFile: std::ifstream file(filename); if (!file.is_open()) return
MainOpenFile ==
    /\ pc = "processFile"
    /\ UNCHANGED <<structure_type, metering, fed, freq, argc, argv1, argv3, todo,
                   input_open, output_open, report, exit_status, oaVars, avlVars,
                   rbVars>>
    /\ IF input_open
       THEN cerr' = cerr /\ pc' = "getline"
       ELSE cerr' = cerr \cup {"Erro: Nao foi possivel abrir o ficheiro"}
            /\ pc' = "write_report"

\* processFile: one line of the file is read
MainGetLine ==
    /\ pc = "getline"
    /\ \E line \in Lines : ProcessLine(line)

\* processFile: std::getline finds the end of the file
MainEndOfFile ==
    /\ pc = "getline"
    /\ pc' = "write_report"
    /\ UNCHANGED <<structure_type, metering, fed, freq, argc, argv1, argv3, todo,
                   input_open, output_open, cerr, report, exit_status, oaVars,
                   avlVars, rbVars>>

\* the dictionary.get(key) of write_report's loop over get_all_keys_sorted()
\* throws for some key
ReportThrows ==
    IF structure_type = "open_hash"
    THEN \E k \in 1..Len(get_all_keys_sorted(OaTable)) :
             get(OaTable, get_all_keys_sorted(OaTable)[k]) = NoVal
    ELSE IF structure_type = "avl"
    THEN \E k \in 1..Len(AvlKeysSorted) : AvlGet(avlRoot, AvlKeysSorted[k]) = NoVal
    ELSE \E k \in 1..Len(RbKeysSorted(RbTree("trap")).keys) :
             ~RbGet(RbTree("trap"), RbKeysSorted(RbTree("trap")).keys[k]).found

\* the end of run_and_generate_report: the unique_ptr deletes the dictionary
\* (the next run makes its own), and the next file is read from its start
MainDeleteDictionary ==
    /\ fed' = 0
    /\ freq' = [w \in WordIds |-> 0]
    /\ OaStore([table |-> [j \in 0..(m_table_size - 1) |-> HashSlot],
                size |-> m_table_size, n |-> 0,
                comparisons |-> 0, collisions |-> 0])
    /\ AvlStore(nullptr, [nodeCount |-> 0, rotations |-> 0, comparisons |-> 0])
    /\ rbHeap' = [p \in {TNULL} \cup RbKeys |->
                     IF p = TNULL THEN initializeTNULL ELSE FreeNode]
    /\ rbRoot' = TNULL
    /\ rbNodeCount' = 0
    /\ UNCHANGED <<oaExpect, avlExpect, rbExpect, rbComparisons, rbRotations,
                   rbColors, rbFault>>
    /\ oaLast' = [op |-> "new", key |-> 0, present |-> FALSE]
    /\ avlLast' = [op |-> "new", key |-> 0, rotations |-> 0, root |-> 0]
    /\ rbLast' = [op |-> "new", key |-> 0, fix |-> NoFix]

\* OutputWriter writer(output_filename); writer.write_report(...); the return
\* to main, which after the last run prints "Processamento concluido." and
\* returns 0. An exception of write_report is caught nowhere: std::terminate
\* (SIGABRT, status 134).
MainWriteReport ==
    /\ pc = "write_report"
    /\ UNCHANGED <<structure_type, metering, argc, argv1, argv3, todo, input_open,
                   output_open>>
    /\ MainDeleteDictionary
    /\ IF ~output_open
       THEN /\ cerr' = cerr \cup {"Erro ao criar o arquivo de saida"}
            /\ report' = report
            /\ exit_status' = 0
            /\ pc' = IF argv1 = "--all" THEN "for" ELSE "exit"
       ELSE IF ReportThrows
       THEN /\ cerr' = cerr \cup {"terminate called"}
            /\ report' = report
            /\ exit_status' = 134
            /\ pc' = "exit"
       ELSE /\ cerr' = cerr
            /\ report' = TRUE
            /\ exit_status' = 0
            /\ pc' = IF argv1 = "--all" THEN "for" ELSE "exit"

MainNext ==
    MainArgs \/ MainFor \/ MainOpenFile \/ MainGetLine \/ MainEndOfFile
    \/ MainWriteReport

SpecMain == MainInit /\ [][MainNext]_vars

-----------------------------------------------------------------------------
(* Properties of the open-addressing table *)

\* the keys added and not removed since
OaAdded == {k \in OaAllKeys : oaExpect[k] # NoVal}

\* k is stored in an OCCUPIED slot of table value t
OaPresent(t, k) == OaStoredKey(t, k)

\* the value stored with k in table value t (k present)
OaStored(t, k) ==
    LET j == CHOOSE j \in 0..(t.size - 1) :
                 t.table[j].status = OCCUPIED /\ t.table[j].key = k
    IN  t.table[j].val

\* C1: after any sequence of add and remove, size() is the number of distinct
\* keys that were added and not removed since.
C1_SizeCountsAddedKeys == size(OaTable) = Cardinality(OaAdded)

\* C2: every key whose last add was add(k, v) and which was not removed since
\* has get(k) = v and contains(k), whatever happened to other keys.
C2_GetReturnsLastAdd ==
    \A k \in OaAdded : get(OaTable, k) = oaExpect[k] /\ contains(OaTable, k)

\* C3: remove(k) of a key that is not present changes no slot, not the size
\* and no stored value.
C3_RemoveAbsentIsNoOp ==
    [][(oaLast'.op = "remove" /\ ~OaPresent(OaTable, oaLast'.key))
         => (m_table' = m_table /\ m_table_size' = m_table_size
             /\ m_number_of_elements' = m_number_of_elements)]_vars

\* C4: the rehash inside add preserves the mapping: every key OCCUPIED before
\* it is retrievable from the rehashed table with its value, and size() after
\* the reinsertion equals size() before.
C4_RehashPreservesMapping ==
    [][(oaLast'.op = "add" /\ NeedsRehash(OaTable))
         => LET r == rehash(OaTable, 2 * m_table_size)
            IN  /\ size(r) = size(OaTable)
                /\ \A k \in OaAllKeys : OaPresent(OaTable, k)
                       => get(r, k) = OaStored(OaTable, k)]_vars

\* C5: add doubles the capacity exactly when (size+1)/capacity >= 0.75 at the
\* call, hence after nine distinct keys went into a capacity-11 table the
\* capacity is 22 and all nine keys are retrievable.
C5_NineKeysRehashTo22 ==
    (Cardinality(OaAdded) = 9)
        => /\ m_table_size = 22
           /\ \A k \in OaAdded : get(OaTable, k) = oaExpect[k]

\* the slots find_slot(k) probes in table value t
OaProbed(t, k) ==
    {(hash_code(k, t.size) + i * hash_code2(k)) % t.size :
        i \in 0..(find_slot(t, k).probes - 1)}

\* C6: once remove(k1) left a tombstone, the other present keys are still
\* found, and a different key k2 whose probe sequence passes through the
\* tombstone and which is added afterwards is retrievable with its value.
C6_AddAfterTombstoneRetrievable ==
    [][(/\ oaLast'.op = "add"
        /\ ~NeedsRehash(OaTable)
        /\ ~OaPresent(OaTable, oaLast'.key)
        /\ \E j \in OaProbed(OaTable, oaLast'.key) : m_table[j].status = DELETED)
         => /\ get(OaTable', oaLast'.key) = oaExpect'[oaLast'.key]
            /\ \A k \in OaAllKeys : (k # oaLast'.key /\ OaPresent(OaTable, k))
                   => get(OaTable', k) = OaStored(OaTable, k)]_vars

\* C14: in the hash table, remove(k) of a present key k makes contains(k)
\* false and get(k) throw, decreases size() by exactly 1, and leaves every
\* other present key retrievable with its value.
C14_RemovePresentKey ==
    [][(oaLast'.op = "remove" /\ OaPresent(OaTable, oaLast'.key))
         => /\ ~contains(OaTable', oaLast'.key)
            /\ get(OaTable', oaLast'.key) = NoVal
            /\ size(OaTable') = size(OaTable) - 1
            /\ \A k \in OaAllKeys : (k # oaLast'.key /\ OaPresent(OaTable, k))
                   => /\ contains(OaTable', k)
                      /\ get(OaTable', k) = OaStored(OaTable, k)]_vars

\* a present key was removed from a table that already held a tombstone, and
\* other keys remain
C14_Witness ==
    /\ oaLast.op = "remove"
    /\ oaLast.present
    /\ m_number_of_elements >= 2
    /\ Cardinality({j \in 0..(m_table_size - 1) : m_table[j].status = DELETED}) >= 2

\* C17: in the hash table, add(k, v) for a key that is already present
\* changes the table in place: the capacity, the status of every slot and the
\* slot of every entry stay as they were, and only the value stored with k
\* changes (an update never rehashes).
C17_UpdateInPlace ==
    \A k \in OaKeys, v \in Values :
        OaPresent(OaTable, k) =>
            \E t \in {add(OaTable, k, v)} :
                /\ t.size = m_table_size
                /\ t.n = m_number_of_elements
                /\ DOMAIN t.table = DOMAIN m_table
                /\ \A j \in DOMAIN m_table :
                       t.table[j] =
                           IF m_table[j].status = OCCUPIED /\ m_table[j].key = k
                           THEN [m_table[j] EXCEPT !.val = v]
                           ELSE m_table[j]

-----------------------------------------------------------------------------
(* Properties of the AVL tree *)

\* the height of a subtree measured on the tree itself, not read from the
\* cached field
RECURSIVE TrueHeight(_)
TrueHeight(node) ==
    IF node.isNull THEN 0
    ELSE 1 + Max(TrueHeight(node.left), TrueHeight(node.right))

\* at every node of the subtree the two subtrees' heights differ by at most 1
RECURSIVE AvlBalanced(_)
AvlBalanced(node) ==
    \/ node.isNull
    \/ /\ TrueHeight(node.left) - TrueHeight(node.right) \in {-1, 0, 1}
       /\ AvlBalanced(node.left)
       /\ AvlBalanced(node.right)

\* C7: after every add and every remove, at every node the heights of the left
\* and the right subtree differ by at most 1.
C7_AvlBalancedAfterEveryOp == AvlBalanced(avlRoot)

\* a remove that had to make a double rotation has returned
C7_Witness ==
    /\ avlLast.op = "remove"
    /\ avlLast.rotations >= 2
    /\ TrueHeight(avlRoot) >= 2

\* C10: the AVL tree refines a map: contains(k) and get(k) = v exactly when the
\* last operation on k was add(k, v), contains(k) is false when k was never
\* added or was removed last, and size() counts the keys contains() accepts.
C10_AvlRefinesMap ==
    /\ \A k \in TreeKeys :
          /\ AvlContains(avlRoot, k) <=> (avlExpect[k] # NoVal)
          /\ AvlGet(avlRoot, k) = avlExpect[k]
    /\ avlNodeCount = Cardinality({k \in TreeKeys : AvlContains(avlRoot, k)})

\* the root, a node with two children, was removed (three keys are left), and
\* one of the keys left had its value overwritten before
C10_Witness ==
    /\ avlLast.op = "remove"
    /\ avlLast.key = avlLast.root
    /\ avlNodeCount >= 3
    /\ \E k \in TreeKeys : avlExpect[k] = MaxVal

-----------------------------------------------------------------------------
(* Properties of the red-black tree *)

\* C8: after every add and every remove of the red-black tree, no red node
\* has a red child and every path from the root to a sentinel leaf holds the
\* same number of black nodes.
C8_RbColorsAfterEveryOp ==
    (rbFault = "none" /\ rbLast.op \in {"add", "remove"}) => RbColorsValid

\* C9: remove of a present key on a valid tree runs to completion, and when
\* it enters deleteFix with x = TNULL the sentinel's parent link is the live
\* node under which the removed position hangs.
C9_RemoveCompletes ==
    rbLast.op = "remove" =>
        /\ rbFault = "none"
        /\ (rbLast.fix.entered /\ rbLast.fix.x = TNULL) =>
               rbLast.fix.xparent = rbLast.fix.hang

\* C11: the red-black tree refines a map: after any sequence of add and
\* remove, contains(k) is true and get(k) returns v exactly when the last
\* operation on k was add(k, v), contains(k) is false otherwise, and size()
\* is the number of keys for which contains is true.
C11_RbRefinesMap ==
    rbFault = "none" =>
        \A uaf \in UafOutcomes :
            /\ \A k \in RbKeys :
                  LET c == RbContains(RbTree(uaf), k)
                      g == RbGet(RbTree(uaf), k)
                  IN  /\ c.fault = "none" /\ g.fault = "none"
                      /\ c.found <=> (rbExpect[k] # NoVal)
                      /\ g.found <=> (rbExpect[k] # NoVal)
                      /\ g.found => g.val = rbExpect[k]
            /\ RbSize = Cardinality({k \in RbKeys :
                                        RbContains(RbTree(uaf), k).found})

StrictlyAscending(keys) == \A i \in 1..(Len(keys) - 1) : keys[i] < keys[i + 1]

KeysOf(keys) == {keys[i] : i \in 1..Len(keys)}

C12_AvlKeysSorted ==
    /\ StrictlyAscending(AvlKeysSorted)
    /\ KeysOf(AvlKeysSorted) = {k \in TreeKeys : avlExpect[k] # NoVal}

C12_RbKeysSorted ==
    rbFault = "none" =>
        \A uaf \in UafOutcomes :
            LET r == RbKeysSorted(RbTree(uaf))
            IN  /\ r.fault = "none"
                /\ StrictlyAscending(r.keys)
                /\ KeysOf(r.keys) = {k \in RbKeys : rbExpect[k] # NoVal}

\* C12: in the AVL tree and in the red-black tree, in every reachable state
\* get_all_keys_sorted() returns a strictly ascending sequence that holds
\* exactly the present keys, each once.
C12_KeysSortedAndExact == C12_AvlKeysSorted /\ C12_RbKeysSorted

C13_OaGetAbsentThrows ==
    \A k \in OaAllKeys : oaExpect[k] = NoVal => get(OaTable, k) = NoVal

C13_AvlGetAbsentThrows ==
    \A k \in TreeKeys : avlExpect[k] = NoVal => AvlGet(avlRoot, k) = NoVal

C13_RbGetAbsentThrows ==
    rbFault = "none" =>
        \A uaf \in UafOutcomes :
            \A k \in RbKeys :
                rbExpect[k] = NoVal =>
                    LET g == RbGet(RbTree(uaf), k)
                    IN  g.fault = "none" /\ ~g.found

\* C13: in the AVL tree, the red-black tree and the hash table, get(k) for
\* a key that is not present signals an error and never returns a value.
\* (get is a const member: it assigns nothing but the comparison counter.)
C13_GetAbsentThrows ==
    C13_OaGetAbsentThrows /\ C13_AvlGetAbsentThrows /\ C13_RbGetAbsentThrows

C15_OaRemoveAgain ==
    oaLast.op = "remove" =>
        \E t \in {remove(OaTable, oaLast.key)} :
            /\ t.table = m_table
            /\ t.size = m_table_size
            /\ t.n = m_number_of_elements

C15_AvlRemoveAgain ==
    avlLast.op = "remove" =>
        \E r \in {_remove(avlRoot, avlLast.key, AvlCounters)} :
            /\ r.node = avlRoot
            /\ r.m.nodeCount = avlNodeCount

C15_RbRemoveAgain ==
    (rbLast.op = "remove" /\ rbFault = "none") =>
        \A uaf \in UafOutcomes :
            \E r \in {RbRemoveKey(RbTree(uaf), rbLast.key)} :
                /\ ~Faulted(r)
                /\ \E c \in {Release(r)} :
                       /\ c.heap = rbHeap
                       /\ c.root = rbRoot
                       /\ c.nodeCount = rbNodeCount

\* C15: in the AVL tree, the red-black tree and the hash table, remove(k)
\* called again right after remove(k) changes nothing: the keys, the values
\* and the size are those the first call left.
C15_RemoveTwiceIsRemoveOnce ==
    C15_OaRemoveAgain /\ C15_AvlRemoveAgain /\ C15_RbRemoveAgain

\* the AVL tree node with the value of key replaced by v, nothing else
RECURSIVE AvlWithValue(_, _, _)
AvlWithValue(node, key, v) ==
    IF node.isNull THEN node
    ELSE IF key = node.key THEN [node EXCEPT !.val = v]
    ELSE [node EXCEPT !.left = AvlWithValue(node.left, key, v),
                      !.right = AvlWithValue(node.right, key, v)]

C16_AvlAddPresent ==
    \A k \in TreeKeys, v \in Values :
        avlExpect[k] # NoVal =>
            \E r \in {_insert(avlRoot, k, v, AvlCounters)} :
                /\ r.node = AvlWithValue(avlRoot, k, v)
                /\ r.m.nodeCount = avlNodeCount
                /\ r.m.rotations = avlRotations

C16_RbAddPresent ==
    rbFault = "none" =>
        \A uaf \in UafOutcomes, k \in RbKeys, v \in Values :
            rbExpect[k] # NoVal =>
                \A reuse \in ReuseOutcomes(k) :
                    \E r \in {Rb_insert(RbTree(uaf), k, v, reuse)} :
                        /\ ~Faulted(r)
                        /\ r.nodeCount = rbNodeCount
                        /\ r.rotations = rbRotations
                        /\ r.colors = rbColors
                        /\ \E c \in {Release(r)} :
                               /\ c.heap = [rbHeap EXCEPT ![k].val = v]
                               /\ c.root = rbRoot

\* C16: in the AVL tree and in the red-black tree, add(k, v) for a key that
\* is already present only overwrites the stored value: size(), the shape,
\* the heights, the colours, the rotation counter and the recolouring
\* counter stay as they were, and so does the value of every other key.
C16_AddPresentOnlyOverwrites == C16_AvlAddPresent /\ C16_RbAddPresent

C18_OaAfterClear ==
    \E t \in {clear(OaTable)} :
        /\ isEmpty(t)
        /\ size(t) = 0
        /\ get_all_keys_sorted(t) = <<>>
        /\ \A k \in OaAllKeys : get(t, k) = NoVal
        /\ t.comparisons = 0
        /\ t.collisions = 0

C18_AvlAfterClear ==
    \E r \in {AvlClearAll} :
        /\ r.m.nodeCount = 0
        /\ in_Order_vec(r.node) = <<>>
        /\ \A k \in TreeKeys : findNode(r.node, k, r.m).node.isNull
        /\ r.m.comparisons = 0
        /\ r.m.rotations = 0

C18_RbAfterClear ==
    rbFault = "none" =>
        \A uaf \in UafOutcomes :
            \E r \in {RbClearAll(RbTree(uaf))} :
                /\ ~Faulted(r)
                /\ \E c \in {Release(r)} :
                       /\ c.nodeCount = 0
                       /\ RbKeysSorted(c) = [fault |-> "none", keys |-> <<>>]
                       /\ \A k \in RbKeys :
                              \E g \in {RbGet(c, k)} : g.fault = "none" /\ ~g.found
                       /\ c.comparisons = 0
                       /\ c.rotations = 0
                       /\ c.colors = 0

\* C18: in the AVL tree, the red-black tree and the hash table, clear()
\* from any reachable state leaves isEmpty() true, size() 0,
\* get_all_keys_sorted() empty, get of any key a not-found error, and the
\* comparison, rotation, recolouring and collision counters at 0.
C18_ClearEmptiesAndResets ==
    C18_OaAfterClear /\ C18_AvlAfterClear /\ C18_RbAfterClear

\* get(w) and size() of the dictionary the file was read into
FileGet(w) ==
    IF structure_type = "open_hash" THEN get(OaTable, WordHash[w])
    ELSE IF structure_type = "avl" THEN AvlGet(avlRoot, w)
    ELSE RbGet(RbTree("trap"), w).val

FileSize ==
    IF structure_type = "open_hash" THEN size(OaTable)
    ELSE IF structure_type = "avl" THEN avlNodeCount
    ELSE RbSize

\* C20: after processFile has read a sequence of tokens into an initially
\* empty dictionary of any implementation, get(w) is the number of
\* occurrences of w for every cleaned non-empty word w of the sequence, and
\* size() is the number of distinct such words.
C20_WordFrequencies ==
    (structure_type # "none" /\ rbFault = "none") =>
        /\ \A w \in WordIds : freq[w] > 0 => FileGet(w) = freq[w]
        /\ FileSize = Cardinality({w \in WordIds : freq[w] > 0})

\* C21: a run of main with an unrecognized structure name or with an input
\* file that cannot be opened ends with an error message on std::cerr and a
\* nonzero exit status, and writes no report of a successful run.
C21_BadRunFails ==
    (/\ pc = "exit"
     /\ argc = 3 \/ (argc = 5 /\ argv3 = "--out")
     /\ \/ argv1 \notin StructureNames \cup {"--all"}
        \/ ~input_open)
        => (cerr # {} /\ exit_status # 0 /\ ~report)

\* C22: in every reachable table state and for every key k, find_slot(k)
\* returns an EMPTY slot or an OCCUPIED slot whose key is k, never a DELETED
\* slot nor an OCCUPIED slot that holds another key.
C22_FindSlotEmptyOrMatch ==
    \A k \in OaAllKeys :
        \/ m_table[find_slot(OaTable, k).index].status = EMPTY
        \/ /\ m_table[find_slot(OaTable, k).index].status = OCCUPIED
           /\ m_table[find_slot(OaTable, k).index].key = k

\* the slots of the whole probe sequence of k in a table of capacity c:
\* (h1 + i * h2) mod c for i = 0 .. c - 1
ProbeSequence(k, c) ==
    {(hash_code(k, c) + i * hash_code2(k)) % c : i \in 0..(c - 1)}

\* C23: for every key and every capacity the table has (the initial one and
\* each doubling of it), the step h2(key) = 13 - (hash(key) mod 13) is nonzero
\* modulo the capacity and the probe sequence visits every slot of the table.
C23_ProbeVisitsEverySlot ==
    \A k \in OaAllKeys :
        /\ hash_code2(k) % m_table_size # 0
        /\ ProbeSequence(k, m_table_size) = 0..(m_table_size - 1)

\* the first DELETED slot the probe sequence of k meets in table value t
\* before any EMPTY slot, from probe i on; NoSlot when it meets none
NoSlot == 0 - 1

RECURSIVE FirstTombstone(_, _, _)
FirstTombstone(t, k, i) ==
    IF i >= t.size THEN NoSlot
    ELSE LET index == (hash_code(k, t.size) + i * hash_code2(k)) % t.size
         IN  IF t.table[index].status = EMPTY THEN NoSlot
             ELSE IF t.table[index].status = DELETED THEN index
             ELSE FirstTombstone(t, k, i + 1)

\* the changes of state a slot may make
SlotStep(before, after) ==
    \/ before = after
    \/ before = EMPTY /\ after = OCCUPIED
    \/ before = OCCUPIED /\ after = DELETED
    \/ before = DELETED /\ after = OCCUPIED

\* the call replaced the table: clear(), or an add that rehashed
TableReplaced == oaLast'.op = "clear" \/ m_table_size' # m_table_size

\* every slot of a table that was not replaced made an allowed change
SlotStepsAllowed ==
    ~TableReplaced =>
        \A j \in 0..(m_table_size - 1) :
            SlotStep(m_table[j].status, m_table'[j].status)

\* an add of a new key that met a DELETED slot before any EMPTY slot stored
\* the key there
TombstoneTaken ==
    (/\ ~TableReplaced
     /\ oaLast'.op = "add"
     /\ ~OaStoredKey(OaTable, oaLast'.key)
     /\ FirstTombstone(OaTable, oaLast'.key, 0) # NoSlot)
        => /\ m_table'[FirstTombstone(OaTable, oaLast'.key, 0)].status = OCCUPIED
           /\ m_table'[FirstTombstone(OaTable, oaLast'.key, 0)].key = oaLast'.key

\* the first half of C24 alone: the changes of state of the slots
C24_SlotSteps == [][SlotStepsAllowed]_vars

\* C24: a slot changes state only along EMPTY -> OCCUPIED, OCCUPIED ->
\* DELETED and DELETED -> OCCUPIED (apart from clear() and the table
\* replacement of rehash, no slot returns to EMPTY and no EMPTY slot becomes
\* DELETED), and an add of a new key whose probe sequence reaches a DELETED
\* slot before any EMPTY slot stores the key in that DELETED slot.
C24_SlotLifeCycle == [][SlotStepsAllowed /\ TombstoneTaken]_vars

\* C25: each of get, contains, remove and an add that does not rehash
\* increases the comparison counter of the hash table by exactly the number
\* of slots its slot search probed.
C25_ComparisonsCountProbes ==
    [][(\/ oaLast'.op \in {"get", "contains", "remove"}
        \/ (oaLast'.op = "add" /\ ~NeedsRehash(OaTable)))
         => oaComparisons' - oaComparisons
                = find_slot(OaTable, oaLast'.key).probes]_vars

\* the add of the step stored a key that was not in the table, in a slot other
\* than the one its probe sequence starts at
StoredAwayFromInitial ==
    /\ ~OaStoredKey(OaTable, oaLast'.key)
    /\ OaStoredKey(OaTable', oaLast'.key)
    /\ ~(/\ m_table'[hash_code(oaLast'.key, m_table_size')].status = OCCUPIED
         /\ m_table'[hash_code(oaLast'.key, m_table_size')].key = oaLast'.key)

\* C26: an add increases the collision counter by exactly 1 when it stores a
\* new key in a slot other than the key's initial probe position and leaves
\* it unchanged otherwise, and the counter never decreases between clears.
C26_CollisionsCountDisplacedAdds ==
    [][/\ oaLast'.op = "add"
           => oaCollisions' - oaCollisions
                  = IF StoredAwayFromInitial THEN 1 ELSE 0
       /\ oaLast'.op # "clear" => oaCollisions' >= oaCollisions]_vars

\* the keys of the nodes on the search path of key below an AVL node
RECURSIVE AvlSearchPath(_, _)
AvlSearchPath(node, key) ==
    IF node.isNull THEN <<>>
    ELSE IF key < node.key THEN <<node.key>> \o AvlSearchPath(node.left, key)
    ELSE IF key > node.key THEN <<node.key>> \o AvlSearchPath(node.right, key)
    ELSE <<node.key>>

\* the same below a node of the red-black tree (a node p holds key p)
RECURSIVE RbSearchPath(_, _, _)
RbSearchPath(p, key, fuel) ==
    IF p = TNULL \/ fuel = 0 THEN <<>>
    ELSE IF key < p THEN <<p>> \o RbSearchPath(rbHeap[p].left, key, fuel - 1)
    ELSE IF key > p THEN <<p>> \o RbSearchPath(rbHeap[p].right, key, fuel - 1)
    ELSE <<p>>

\* L + 2 * G of a search path: L nodes where the key is less than the node's
\* key, G nodes where it is greater or equal
PathCost(path, key) ==
    Cardinality({i \in 1..Len(path) : key < path[i]})
    + 2 * Cardinality({i \in 1..Len(path) : key >= path[i]})

\* the AVL node that holds key, below node (nullptr when there is none)
RECURSIVE AvlNodeOf(_, _)
AvlNodeOf(node, key) ==
    IF node.isNull THEN node
    ELSE IF key < node.key THEN AvlNodeOf(node.left, key)
    ELSE IF key > node.key THEN AvlNodeOf(node.right, key)
    ELSE node

\* the comparisons of the second descent of AVL::_remove: when the node of
\* key has two children, the key of its successor is searched and removed
\* below its right child
SuccessorDescentCost(root, key) ==
    LET node == AvlNodeOf(root, key)
    IN  IF node.isNull THEN 0
        ELSE IF node.left.isNull \/ node.right.isNull THEN 0
        ELSE PathCost(AvlSearchPath(node.right, minValueNode(node.right).key),
                      minValueNode(node.right).key)

TreeOps == {"add", "remove", "get", "contains"}

C28_ColorsCountAssignments ==
    RbCallable =>
        \A key \in RbKeys :
            /\ \A r \in {Rb_insert(RbTree("trap"), key, 1, TRUE)} :
                   ~Faulted(r) => r.colors - rbColors = r.assigned
            /\ \A r \in {RbRemoveKey(RbTree("trap"), key)} :
                   ~Faulted(r) => r.colors - rbColors = r.assigned

\* C29: after every add and every remove of the red-black tree that ran to
\* its end, the root of a non-empty tree is black and the sentinel is black.
C29_RootAndSentinelBlack ==
    (rbFault = "none" /\ rbLast.op \in {"add", "remove"})
        => /\ rbHeap[TNULL].color = BLACK
           /\ rbRoot # TNULL => (rbRoot \in RbKeys /\ rbHeap[rbRoot].color = BLACK)


\* a remove of the root ended: its only child, a red node, took its place and
\* the last statement of deleteFix colored it black
C29_Witness ==
    /\ rbFault = "none"
    /\ rbLast.op = "remove"
    /\ rbLast.fix.entered
    /\ rbLast.fix.x = rbRoot
    /\ rbRoot # TNULL
    /\ rbHeap[TNULL].color = BLACK

\* C30: the sentinel of the red-black tree is immutable: after every add,
\* remove and clear its color, parent, left and right are the ones
\* initializeTNULL gave it.
C30_SentinelImmutable ==
    rbFault = "none" => rbHeap[TNULL] = initializeTNULL

-----------------------------------------------------------------------------
(* Cached heights of the AVL tree *)

\* at every node of the subtree the height field is 1 + the larger of the
\* heights measured on its two subtrees
RECURSIVE HeightsCached(_)
HeightsCached(node) ==
    \/ node.isNull
    \/ /\ node.height = 1 + Max(TrueHeight(node.left), TrueHeight(node.right))
       /\ HeightsCached(node.left)
       /\ HeightsCached(node.right)

\* C31: between operations every node of the AVL tree has in its height field
\* 1 + max of the heights of its actual subtrees (0 for an absent child), so
\* getBalance gives the true balance factor at every node.
C31_CachedHeightsAreTrue ==
    /\ HeightsCached(avlRoot)
    /\ \A k \in TreeKeys :
          LET n == findNode(avlRoot, k, AvlCounters).node
          IN  ~n.isNull =>
                  getBalance(n) = TrueHeight(n.right) - TrueHeight(n.left)

\* a remove of a root with two children has returned after rotating, and the
\* tree left has three levels
C31_Witness ==
    /\ avlLast.op = "remove"
    /\ avlLast.key = avlLast.root
    /\ avlLast.rotations >= 1
    /\ avlNodeCount >= 4
    /\ TrueHeight(avlRoot) = 3

-----------------------------------------------------------------------------
(* A single rotation *)

\* the subtrees of an AVL tree, the tree itself included
RECURSIVE AvlSubtrees(_)
AvlSubtrees(node) ==
    IF node.isNull THEN {}
    ELSE {node} \cup AvlSubtrees(node.left) \cup AvlSubtrees(node.right)

\* the (key, value) pairs of an AVL tree
AvlPairs(node) == {<<n.key, n.val>> : n \in AvlSubtrees(node)}

\* r is what a rotation returns for the subtree n with the counters m: the
\* keys in order and the pairs are those of n, and one rotation was counted
AvlRotationKeeps(n, m, r) ==
    /\ in_Order_vec(r.node) = in_Order_vec(n)
    /\ AvlPairs(r.node) = AvlPairs(n)
    /\ r.m = [m EXCEPT !.rotations = @ + 1]

\* leftRotate on every node of the tree that has a right child: besides the
\* two links of the edge and the two heights everything is as it was
AvlLeftRotations ==
    \A n \in AvlSubtrees(avlRoot) :
        ~n.right.isNull =>
            LET r == leftRotate(n, AvlCounters)
                u == r.node
            IN  /\ AvlRotationKeeps(n, AvlCounters, r)
                /\ u.key = n.right.key /\ u.val = n.right.val
                /\ u.right = n.right.right
                /\ u.left.key = n.key /\ u.left.val = n.val
                /\ u.left.left = n.left
                /\ u.left.right = n.right.left
                /\ HeightsCached(n) => HeightsCached(u)

AvlRightRotations ==
    \A n \in AvlSubtrees(avlRoot) :
        ~n.left.isNull =>
            LET r == rightRotate(n, AvlCounters)
                u == r.node
            IN  /\ AvlRotationKeeps(n, AvlCounters, r)
                /\ u.key = n.left.key /\ u.val = n.left.val
                /\ u.left = n.left.left
                /\ u.right.key = n.key /\ u.right.val = n.val
                /\ u.right.right = n.right
                /\ u.right.left = n.left.right
                /\ HeightsCached(n) => HeightsCached(u)

\* r is what a rotation of the red-black tree T around x returns, c being the
\* child of x that goes up and inner the child of c that changes sides
RbRotationKeeps(T, r, x, c, inner) ==
    LET xp == T.heap[x].parent
    IN  /\ ~Faulted(r)
        /\ RbInOrderVec(r, r.root, RbMaxKey) = RbInOrderVec(T, T.root, RbMaxKey)
        /\ IsSearchTree(r.heap, r.root, TNULL, 0, RbMaxKey + 1)
        /\ \A p \in DOMAIN T.heap :
              /\ r.heap[p].val = T.heap[p].val
              /\ r.heap[p].color = T.heap[p].color
              /\ r.heap[p].st = T.heap[p].st
              /\ p \notin {x, c, inner, xp} \/ p = TNULL => r.heap[p] = T.heap[p]
        /\ r.rotations = T.rotations + 1
        /\ r.colors = T.colors
        /\ r.comparisons = T.comparisons
        /\ r.nodeCount = T.nodeCount
        /\ r.root = IF xp = TNULL THEN c ELSE T.root
        /\ r.heap[x].parent = c
        /\ r.heap[c].parent = xp
        /\ inner # TNULL =>
              /\ r.heap[inner].parent = x
              /\ r.heap[inner].left = T.heap[inner].left
              /\ r.heap[inner].right = T.heap[inner].right
        /\ xp # TNULL =>
              /\ r.heap[xp].parent = T.heap[xp].parent
              /\ r.heap[xp].left = IF T.heap[xp].left = x THEN c ELSE T.heap[xp].left
              /\ r.heap[xp].right = IF T.heap[xp].left = x THEN T.heap[xp].right ELSE c

RbLeftRotations ==
    RbCallable =>
        \A x \in RbSubtree(rbHeap, rbRoot) :
            rbHeap[x].right # TNULL =>
                LET T == RbTree("trap")
                    y == rbHeap[x].right
                    r == RbLeftRotate(T, x)
                IN  /\ RbRotationKeeps(T, r, x, y, rbHeap[y].left)
                    /\ r.heap[x].left = rbHeap[x].left
                    /\ r.heap[x].right = rbHeap[y].left
                    /\ r.heap[y].left = x
                    /\ r.heap[y].right = rbHeap[y].right

RbRightRotations ==
    RbCallable =>
        \A y \in RbSubtree(rbHeap, rbRoot) :
            rbHeap[y].left # TNULL =>
                LET T == RbTree("trap")
                    x == rbHeap[y].left
                    r == RbRightRotate(T, y)
                IN  /\ RbRotationKeeps(T, r, y, x, rbHeap[x].right)
                    /\ r.heap[y].right = rbHeap[y].right
                    /\ r.heap[y].left = rbHeap[x].right
                    /\ r.heap[x].right = y
                    /\ r.heap[x].left = rbHeap[x].left

\* C32: a single left or right rotation of the AVL tree or of the red-black
\* tree keeps the keys in order and the (key, value) pairs, counts exactly one
\* rotation, and changes only the links of the rotated edge (for AVL the two
\* heights too, for red-black the parent links concerned and the root).
C32_RotationPreservesOrder ==
    /\ AvlLeftRotations
    /\ AvlRightRotations
    /\ RbLeftRotations
    /\ RbRightRotations

\* an operation of either tree has returned and left a node whose child has an
\* inner subtree, which a rotation around the node moves to the other side
C32_Witness ==
    \/ /\ structure_type = "avl"
       /\ avlLast.rotations >= 1
       /\ \E n \in AvlSubtrees(avlRoot) : ~n.left.isNull /\ ~n.left.right.isNull
    \/ /\ structure_type = "rb"
       /\ rbLast.op = "add"
       /\ RbCallable
       /\ \E x \in RbSubtree(rbHeap, rbRoot) :
              rbHeap[x].right # TNULL /\ rbHeap[rbHeap[x].right].left # TNULL

-----------------------------------------------------------------------------
(* Termination of the operations of the hash table *)

\* find_slot(k) left its loop by the return after it (line 177): no slot it
\* probed was EMPTY or held k
Exhausted(t, k) ==
    LET f == find_slot(t, k)
    IN  /\ f.probes = t.size
        /\ t.table[f.index].status # EMPTY
        /\ ~(t.table[f.index].status = OCCUPIED /\ t.table[f.index].key = k)

\* C33: add, remove, get and contains of the hash table terminate: find_slot
\* makes at least one and at most capacity probes for every key, also when
\* no slot of the key's probe sequence is EMPTY, and an add that rehashes
\* leaves a table of exactly twice the capacity (no reinsertion rehashes).
C33_OperationsTerminate ==
    \A k \in OaAllKeys :
        /\ find_slot(OaTable, k).probes \in 1..m_table_size
        /\ remove(OaTable, k).comparisons - oaComparisons \in 1..m_table_size
        /\ get_comparisons_after_get(OaTable, k) - oaComparisons \in 1..m_table_size
        /\ get_comparisons_after_contains(OaTable, k) - oaComparisons
               \in 2..(m_table_size + 1)
        /\ \A a \in {add(OaTable, k, 1)} :
               /\ a.size = IF NeedsRehash(OaTable) THEN 2 * m_table_size
                           ELSE m_table_size
               /\ a.comparisons - oaComparisons
                      <= (m_number_of_elements + 1) * a.size

\* no slot of the table is EMPTY, find_slot runs through all its probes for a
\* key without meeting the key, and the next add will rehash
C33_Witness ==
    /\ oaLast.op \in {"add", "remove"}
    /\ \A j \in 0..(m_table_size - 1) : m_table[j].status # EMPTY
    /\ NeedsRehash(OaTable)
    /\ \E k \in OaAllKeys : Exhausted(OaTable, k)

-----------------------------------------------------------------------------
(* Slots of the hash table *)

\* the slots of the table with status s
SlotsWith(s) == {j \in 0..(m_table_size - 1) : m_table[j].status = s}

\* C34: no key is the key of two OCCUPIED slots of the hash table at once.
C34_NoKeyStoredTwice ==
    \A i, j \in SlotsWith(OCCUPIED) : m_table[i].key = m_table[j].key => i = j

\* an add has stored a key in a slot that is not the first of its probe
\* sequence while a slot before it on that sequence is a tombstone
C34_Witness ==
    /\ oaLast.op = "add"
    /\ \E j \in SlotsWith(OCCUPIED) :
          /\ m_table[j].key = oaLast.key
          /\ j # hash_code(oaLast.key, m_table_size)
          /\ m_table[hash_code(oaLast.key, m_table_size)].status = DELETED

\* C35: between operations the hash table has at least one EMPTY slot: the
\* OCCUPIED and the DELETED slots together are fewer than the capacity.
C35_AlwaysAnEmptySlot ==
    /\ SlotsWith(EMPTY) # {}
    /\ Cardinality(SlotsWith(OCCUPIED)) + Cardinality(SlotsWith(DELETED)) < m_table_size

\* C36: for a table of capacity >= 2 and threshold 0.75, after every add
\* size() / capacity is strictly below the threshold, and a remove never
\* raises size() / capacity.
C36_LoadBelowThreshold ==
    [][/\ oaLast'.op = "add" =>
             m_number_of_elements' * MaxLoadDen < MaxLoadNum * m_table_size'
       /\ oaLast'.op = "remove" =>
             m_number_of_elements' * m_table_size
                 <= m_number_of_elements * m_table_size']_vars

\* an add has returned and left the table one element below the threshold:
\* the next add of a new key rehashes
C36_Witness ==
    /\ oaLast.op = "add"
    /\ m_number_of_elements >= 2
    /\ NeedsRehash(OaTable)
    /\ m_number_of_elements * MaxLoadDen < MaxLoadNum * m_table_size

\* C37: between operations the element counter size() returns is the number
\* of OCCUPIED slots of the table.
C37_SizeCountsOccupiedSlots ==
    m_number_of_elements = Cardinality(SlotsWith(OCCUPIED))

\* an add has returned whose find_slot ran through all its probes and ended
\* on a slot occupied by another key: the key added is in no slot
C37_Witness ==
    /\ oaLast.op = "add"
    /\ ~OaStoredKey(OaTable, oaLast.key)
    /\ Exhausted(OaTable, oaLast.key)
    /\ m_number_of_elements >= 1

-----------------------------------------------------------------------------
(* Parent links of the red-black tree *)

\* below p, whose parent field must be parent, every node reached by the
\* child links is a node whose parent field is the node it hangs under
RECURSIVE ParentLinks(_, _, _, _)
ParentLinks(heap, p, parent, fuel) ==
    IF p = TNULL THEN TRUE
    ELSE IF p \notin RbKeys \/ fuel = 0 THEN FALSE
    ELSE /\ heap[p].parent = parent
         /\ ParentLinks(heap, heap[p].left, p, fuel - 1)
         /\ ParentLinks(heap, heap[p].right, p, fuel - 1)

\* C38: between operations of the red-black tree the root's parent is the
\* sentinel and every child that is not the sentinel has its parent field
\* on the node it is a child of.
C38_ParentLinksConsistent ==
    rbFault = "none" => ParentLinks(rbHeap, rbRoot, TNULL, LoopFuel)

=========================================================================
